---- MODULE Spec2Model ----
(***************************************************************************)
(* Sign-in wizard, session store and role-gated router of the lending bot. *)
(* The repository holds two variants of the bot: src/bot.js (MySQL, long    *)
(* polling) and src/unnamed/part_000 (PostgreSQL, webhook).  The variable   *)
(* `variant` fixes which of the two a behaviour runs; every handler is      *)
(* translated from both, and the places where they differ test `variant`.  *)
(*                                                                         *)
(* Texts are tuples of one-character strings, so that trim, toLowerCase,    *)
(* includes, startsWith, parseInt and the hash-tag rewrite are computed     *)
(* the way the code computes them.  Bot messages are tuples of tokens cut   *)
(* so that the prefixes the code tests with startsWith are token prefixes.  *)
(*                                                                         *)
(* One event is handled at a time per identity (telegraf runs the          *)
(* middleware chain of an update to completion; the session of an identity *)
(* is read at the start of the chain and stored at its end), so each       *)
(* handler is one atomic action.                                            *)
(***************************************************************************)
EXTENDS Integers, Sequences, FiniteSets, TLC

\* The conversation identities (session keys), and those that send updates.
Ids == {"chatA", "chatB"}

Live == {"chatA"}

Variants == {"bot.js", "part_000"}

Null == "null"

-----------------------------------------------------------------------------
(* Text primitives of the JavaScript runtime.                              *)

UpperChars == <<"A","B","C","D","E","F","G","H","I","J","K","L","M",
                "N","O","P","Q","R","S","T","U","V","W","X","Y","Z">>

LowerChars == <<"a","b","c","d","e","f","g","h","i","j","k","l","m",
                "n","o","p","q","r","s","t","u","v","w","x","y","z">>

Digits == <<"0","1","2","3","4","5","6","7","8","9">>

LowerChar(c) ==
    IF \E k \in DOMAIN UpperChars : UpperChars[k] = c
    THEN LowerChars[CHOOSE k \in DOMAIN UpperChars : UpperChars[k] = c]
    ELSE c

UpperChar(c) ==
    IF \E k \in DOMAIN LowerChars : LowerChars[k] = c
    THEN UpperChars[CHOOSE k \in DOMAIN LowerChars : LowerChars[k] = c]
    ELSE c

\* String.prototype.toLowerCase
ToLower(t) == [k \in 1..Len(t) |-> LowerChar(t[k])]

IsSpace(c) == c = " "

\* String.prototype.trim
Trim(t) ==
    LET keep == {k \in 1..Len(t) : ~IsSpace(t[k])}
    IN  IF keep = {} THEN <<>>
        ELSE LET lo == CHOOSE k \in keep : \A j \in keep : k <= j
                 hi == CHOOSE k \in keep : \A j \in keep : k >= j
             IN  SubSeq(t, lo, hi)

\* String.prototype.includes, for a one-character needle
Includes(t, c) == \E k \in 1..Len(t) : t[k] = c

\* String.prototype.startsWith
StartsWith(t, p) == Len(t) >= Len(p) /\ SubSeq(t, 1, Len(p)) = p

IsDigit(c) == \E k \in DOMAIN Digits : Digits[k] = c

\* parseInt(text) is NaN exactly when, after leading white space and an
\* optional sign, the text does not start with a digit.
ParseIntIsNaN(t) ==
    LET s == Trim(t)
        u == IF Len(s) > 0 /\ s[1] \in {"+", "-"} THEN Tail(s) ELSE s
    IN  Len(u) = 0 \/ ~IsDigit(u[1])

-----------------------------------------------------------------------------
(* The relational store behind `pool`: the rows the queries can return.    *)

E_ann   == <<"a","@","b",".","c">>
E_lee   == <<"l","@","b",".","c">>
E_adm   == <<"r","@","b",".","c">>
E_md5   == <<"m","@","b",".","c">>
E_guest == <<"g","@","b",".","c">>
E_orph  == <<"o","@","b",".","c">>
E_none  == <<"x","@","y",".","z">>

\* A bcrypt hash is its four-character algorithm tag followed by the digest.
Tag2y == <<"$","2","y","$">>
Tag2b == <<"$","2","b","$">>
Tag2a == <<"$","2","a","$">>

P_ann == <<"p","1">>
P_lee == <<"p","2">>
P_adm == <<"p","3">>

\* The digest bcrypt derives from a password (salt and cost left implicit).
Digest(pw) == <<"#">> \o pw

\* Rows of table users, keyed by email.
UsersByEmail ==
    ( E_ann   :> [user_id |-> "u1", password |-> Tag2y \o Digest(P_ann),
                  role |-> <<"C","u","s","t","o","m","e","r">>] ) @@
    ( E_lee   :> [user_id |-> "u2", password |-> Tag2b \o Digest(P_lee),
                  role |-> <<"l","e","n","d","e","r">>] ) @@
    ( E_adm   :> [user_id |-> "u3", password |-> Tag2y \o Digest(P_adm),
                  role |-> <<"A","d","m","i","n">>] ) @@
    ( E_md5   :> [user_id |-> "u4", password |-> <<"m","d","5",":">> \o P_ann,
                  role |-> <<"C","u","s","t","o","m","e","r">>] ) @@
    ( E_guest :> [user_id |-> "u5", password |-> Tag2b \o Digest(P_ann),
                  role |-> <<"G","u","e","s","t">>] ) @@
    ( E_orph  :> [user_id |-> "u6", password |-> Tag2b \o Digest(P_ann),
                  role |-> <<"C","u","s","t","o","m","e","r">>] )

\* SELECT user_id, password, role FROM users WHERE email = ?
FindByEmail(email) ==
    IF email \in DOMAIN UsersByEmail THEN <<UsersByEmail[email]>> ELSE <<>>

\* SELECT role FROM users WHERE user_id = ?
FindRoleById(userId) ==
    LET hit == {e \in DOMAIN UsersByEmail : UsersByEmail[e].user_id = userId}
    IN  IF hit = {} THEN <<>> ELSE <<UsersByEmail[CHOOSE e \in hit : TRUE].role>>

\* SELECT customer_id, name FROM customers WHERE user_id = ?
CustomerRows(userId) ==
    IF userId = "u1" THEN <<[customer_id |-> "c11", name |-> "Ann"]>> ELSE <<>>

\* SELECT lender_id, name FROM lenders WHERE user_id = ?
LenderRows(userId) ==
    IF userId = "u2" THEN <<[lender_id |-> "l22", name |-> "Lee"]>> ELSE <<>>

\* SELECT user_name FROM users WHERE user_id = ?
AdminRows(userId) ==
    IF userId = "u3" THEN <<[user_name |-> "Root"]>> ELSE <<>>

-----------------------------------------------------------------------------
(* Password verification.                                                  *)

\* No normalisation: with it in place of SafeHash a $2y$ hash is compared
\* as it is stored and never matches (C26 fails).
StoredHash(h) == h

\* hashedPassword.replace(/^\$2y\$/, '$2b$')
SafeHash(h) == IF StartsWith(h, Tag2y) THEN Tag2b \o SubSeq(h, 5, Len(h)) ELSE h

\* bcrypt.compare: node's bcrypt accepts the $2a$ and $2b$ tags only.
BcryptCompare(pw, h) ==
    /\ (StartsWith(h, Tag2b) \/ StartsWith(h, Tag2a))
    /\ SubSeq(h, 5, Len(h)) = Digest(pw)

-----------------------------------------------------------------------------
(* Texts the handlers compare against, and the messages they send.         *)

T_stop   == <<"/","s","t","o","p">>
T_signin == <<"/","s","i","g","n","i","n">>

R_customer == <<"c","u","s","t","o","m","e","r">>
R_lender   == <<"l","e","n","d","e","r">>
R_admin    == <<"a","d","m","i","n">>

M_cancelled   == <<"Process cancelled.">>
M_askEmail    == <<"Please enter your email:">>
M_badEmail    == <<"Invalid email format. Please try again:">>
M_noEmail     == <<"Email not found. Contact support.">>
M_sysContact  == <<"System error. Contact support.">>
M_askPassword == <<"Please enter your password:">>
M_sysLater    == <<"System error. Try again later.">>
M_badInput    == <<"Invalid input. Please enter your password:">>
M_privacy     == <<"For your privacy, please delete your password message from the chat history.">>
M_expired     == <<"Session expired. Please start over.">>
M_badPassword == <<"Invalid password. Use /signin to try again.">>
M_noAccount   == <<"Account not found. Contact support.">>
M_noAdmin     == <<"Admin account not found. Contact support.">>
M_badRole     == <<"Invalid user role. Contact support.">>
M_error       == <<"An error occurred. Please try again later.">>
M_welcome(name) == <<"Welcome back, ", name, "!">>

NoMarkup == [force_reply |-> FALSE, remove_keyboard |-> FALSE, inline_keyboard |-> <<>>]

\* ctx.reply(text)
Say(text) == [via |-> "reply", text |-> text, markup |-> NoMarkup]

\* ctx.reply(text, { reply_markup: { force_reply: true } })
Ask(text) == [via |-> "reply", text |-> text,
              markup |-> [NoMarkup EXCEPT !.force_reply = TRUE]]

\* ctx.reply(text, { reply_markup: { remove_keyboard: true } })
Done(text) == [via |-> "reply", text |-> text,
               markup |-> [NoMarkup EXCEPT !.remove_keyboard = TRUE]]

\* ctx.answerCbQuery(text)
Answer(text) == [via |-> "answerCbQuery", text |-> text, markup |-> NoMarkup]

-----------------------------------------------------------------------------
(* Session store: the object telegraf's session() keeps per identity.      *)

NoRole == <<>>

\* A session with nothing in it (never seen, or deleted by sign-out).
EmptySession ==
    [userId |-> Null, role |-> NoRole, customerId |-> Null, lenderId |-> Null,
     customerName |-> Null, signInData |-> <<>>]

WizardStates == {"IDLE", "AWAIT_EMAIL", "AWAIT_PASSWORD"}

\* What one run of a handler leaves behind: the session and the wizard
\* position it stores, the replies it sent, the collaborator calls it made
\* (in order), and how it ended.
Result(s, w, replies, calls, outcome) ==
    [session |-> s, wizard |-> w, replies |-> replies, calls |-> calls,
     outcome |-> outcome]

\* A delete that deletes nothing: with it in place of DeleteSignInData a
\* cancelled run keeps its scratch record (C6 fails).
KeepSignInData(s) == s

\* delete ctx.session?.signInData
DeleteSignInData(s) == [s EXCEPT !.signInData = <<>>]

-----------------------------------------------------------------------------
(* The sign-in wizard (SIGN_IN_SCENE).  A step sees the text of the update  *)
(* it is run on (msg.hasText is FALSE for an update without message text,   *)
(* such as a photo or a button press) and an environment env saying what    *)
(* the collaborators do during this run: env.storeFault, a query on `pool`  *)
(* rejects; env.deleteFails, ctx.deleteMessage rejects; env.warnFails, the  *)
(* ctx.reply of the privacy warning rejects; env.welcomeFails, the          *)
(* ctx.reply of the welcome rejects (it is awaited inside the try, after    *)
(* the session has been written).  In part_000 the warning is               *)
(* sent from the catch block of deleteMessage, outside the step's own try,  *)
(* so its rejection leaves the handler and reaches bot.catch; in bot.js it  *)
(* is sent inside the try, after the comparison.                            *)

\* The badly formed inputs of step 1: no text, empty after trim, or the
\* /signin command text the scene is entered with.
EmailMissing(msg) ==
    \/ ~msg.hasText
    \/ Trim(msg.text) = <<>>
    \/ ToLower(Trim(msg.text)) = T_signin

\* A format test no email passes: with it in place of EmailInvalid no run
\* reaches the password step (C9 fails).
EveryEmailInvalid(email) == TRUE

\* A format test every text passes: with it in place of EmailInvalid a text
\* without '@' reaches the lookup (C21 fails).
NoEmailInvalid(email) == FALSE

\* !email.includes('@') || !email.includes('.')
EmailInvalid(email) == ~Includes(email, "@") \/ ~Includes(email, ".")

\* A scheme test every hash passes: with it in place of HashRecognised a
\* record with an unusable hash reaches the password step (C10 fails).
EveryHashRecognised(h) == TRUE

\* hashedPassword?.startsWith('$2')
HashRecognised(h) == StartsWith(h, <<"$","2">>)

\* ctx.message?.text?.toLowerCase() === '/stop'
IsCancel(msg) == msg.hasText /\ ToLower(msg.text) = T_stop

\* A scratch record without the userId: with it in place of SignInData the
\* password step waits on a record that names nobody (C31 fails).
SignInDataAnonymous(email, row) ==
    [email |-> email, userId |-> Null, hashedPassword |-> row.password,
     role |-> ToLower(row.role)]

\* The scratch record step 1 stores for step 2.
SignInData(email, row) ==
    [email |-> email, userId |-> row.user_id, hashedPassword |-> row.password,
     role |-> ToLower(row.role)]

\* A step 1 without its try/catch: a rejected query leaves the handler and
\* the scene stays where it was (C19 fails).
Step1LookupUncaught(s, email, rows, env) ==
    IF env.storeFault
    THEN Result(s, "AWAIT_EMAIL", <<Say(M_error)>>, <<"users.byEmail">>, "error")
    ELSE IF rows = <<>>
    THEN Result(s, "IDLE", <<Say(M_noEmail)>>, <<"users.byEmail">>, "notFound")
    ELSE IF ~HashRecognised(rows[1].password)
    THEN Result(s, "IDLE", <<Say(M_sysContact)>>, <<"users.byEmail">>, "badHash")
    ELSE Result([s EXCEPT !.signInData = <<SignInData(email, rows[1])>>],
                "AWAIT_PASSWORD", <<Ask(M_askPassword)>>, <<"users.byEmail">>, "next")

\* Step 1 from the query on: `rows` is what the query returns for `email`
\* unless it rejects.
Step1Lookup(s, email, rows, env) ==
    IF env.storeFault
    THEN Result(s, "IDLE", <<Say(M_sysLater)>>, <<"users.byEmail">>, "fault")
    ELSE IF rows = <<>>
    THEN Result(s, "IDLE", <<Say(M_noEmail)>>, <<"users.byEmail">>, "notFound")
    ELSE IF ~HashRecognised(rows[1].password)
    THEN Result(s, "IDLE", <<Say(M_sysContact)>>, <<"users.byEmail">>, "badHash")
    ELSE Result([s EXCEPT !.signInData = <<SignInData(email, rows[1])>>],
                "AWAIT_PASSWORD", <<Ask(M_askPassword)>>, <<"users.byEmail">>, "next")

\* A step 1 that acknowledges the cancel directive and stays where it is:
\* with it in place of Step1 a cancelled run goes on to sign in (C29 fails).
Step1CancelStays(s, msg, env) ==
    IF IsCancel(msg)
    THEN Result(DeleteSignInData(s), "AWAIT_EMAIL", <<Say(M_cancelled)>>, <<>>, "cancelled")
    ELSE IF EmailMissing(msg)
    THEN Result(s, "AWAIT_EMAIL", <<Ask(M_askEmail)>>, <<>>, "reprompt")
    ELSE IF EmailInvalid(Trim(msg.text))
    THEN Result(s, "AWAIT_EMAIL", <<Ask(M_badEmail)>>, <<>>, "invalid")
    ELSE Step1Lookup(s, Trim(msg.text), FindByEmail(Trim(msg.text)), env)

\* Step 1 of the scene: the email.
Step1(s, msg, env) ==
    IF IsCancel(msg)
    THEN Result(DeleteSignInData(s), "IDLE", <<Say(M_cancelled)>>, <<>>, "cancelled")
    ELSE IF EmailMissing(msg)
    THEN Result(s, "AWAIT_EMAIL", <<Ask(M_askEmail)>>, <<>>, "reprompt")
    ELSE IF EmailInvalid(Trim(msg.text))
    THEN Result(s, "AWAIT_EMAIL", <<Ask(M_badEmail)>>, <<>>, "invalid")
    ELSE Step1Lookup(s, Trim(msg.text), FindByEmail(Trim(msg.text)), env)

\* One menu for everybody: with it in place of InlineKeyboard a lender is
\* welcomed with the customer's menu (C24 fails).
InlineKeyboardForAll(v, role) == <<"checkloan", "balance", "loans", "help">>

\* The inline keyboard of the welcome reply, by role.
InlineKeyboard(v, role) ==
    IF role = R_lender
    THEN <<"active_loans", "loan_history", "payment_tracking", "help">>
    ELSE IF role = R_admin
    THEN <<"list_users", "view_logs", "help">>
    ELSE IF v = "part_000"
    THEN <<"loans", "balance", "checkloan", "help">>
    ELSE <<"checkloan", "balance", "loans", "help">>

Welcome(v, s) ==
    [via |-> "reply", text |-> M_welcome(s.customerName),
     markup |-> [force_reply |-> FALSE, remove_keyboard |-> (v = "part_000"),
                 inline_keyboard |-> InlineKeyboard(v, s.role)]]

\* A success path that writes the userId and nothing else: with it in
\* place of SignedIn the sign-in is no longer atomic (C8 fails).
SignedInUserIdOnly(s, sd, customerId, lenderId, name) == [s EXCEPT !.userId = sd.userId]

\* A success path that forgets the role: with it in place of SignedIn a
\* signed-in session has no role and the role query of checkAuth runs
\* (C32 fails).
SignedInWithoutRole(s, sd, customerId, lenderId, name) ==
    [s EXCEPT !.customerName = name, !.userId = sd.userId,
              !.customerId = customerId, !.lenderId = lenderId, !.signInData = <<>>]

\* A success path that writes the customer's role as table users spells it:
\* with it in place of SignedIn a session's role is not one of the three
\* lower-case names (C33 fails).
SignedInRoleAsStored(s, sd, customerId, lenderId, name) ==
    [s EXCEPT !.customerName = name, !.userId = sd.userId,
              !.role = IF sd.role = R_customer
                       THEN <<"C","u","s","t","o","m","e","r">> ELSE sd.role,
              !.customerId = customerId, !.lenderId = lenderId, !.signInData = <<>>]

\* A success path that writes only the ids it found: with it in place of
\* SignedIn a lender who signs in after a customer keeps the customer's id
\* (C34 fails).
SignedInKeepsIds(s, sd, customerId, lenderId, name) ==
    [s EXCEPT !.customerName = name, !.userId = sd.userId, !.role = ToLower(sd.role),
              !.customerId = IF customerId = Null THEN @ ELSE customerId,
              !.lenderId = IF lenderId = Null THEN @ ELSE lenderId,
              !.signInData = <<>>]

\* The session the success path of step 2 writes.
SignedIn(s, sd, customerId, lenderId, name) ==
    [s EXCEPT !.customerName = name, !.userId = sd.userId,
              !.role = ToLower(sd.role), !.customerId = customerId,
              !.lenderId = lenderId, !.signInData = <<>>]

\* A step 2 that goes on whatever the comparison said: with it in place of
\* PasswordAccepted any text signs in (C2 fails).
AcceptAnyPassword(isValid) == TRUE

\* if (!isValid) { ... return }: step 2 goes on only past a valid comparison.
PasswordAccepted(isValid) == isValid

\* Step 2, after the cancel and no-text checks, from the comparison on.
\* `pre` holds the replies and calls made before the try block.
Step2Verify(v, s, sd, password, env, pre) ==
    LET isValid == BcryptCompare(password, SafeHash(sd.hashedPassword))
        said    == pre.replies \o (IF v = "bot.js" THEN <<Say(M_privacy)>> ELSE <<>>)
        calls   == pre.calls \o <<"bcrypt.compare">>
        table   == IF sd.role = R_customer THEN "customers.byUserId"
                   ELSE IF sd.role = R_lender THEN "lenders.byUserId"
                   ELSE "users.nameById"
        queried == sd.role \in {R_customer, R_lender}
                   \/ (sd.role = R_admin /\ v = "part_000")
        calls2  == IF queried THEN calls \o <<table>> ELSE calls
        rows    == IF sd.role = R_customer THEN CustomerRows(sd.userId)
                   ELSE IF sd.role = R_lender THEN LenderRows(sd.userId)
                   ELSE AdminRows(sd.userId)
    IN  IF v = "bot.js" /\ env.warnFails
        THEN Result(s, "IDLE", pre.replies \o <<Say(M_sysLater)>>, calls, "fault")
        ELSE IF ~PasswordAccepted(isValid)
        THEN Result(DeleteSignInData(s), "IDLE", said \o <<Say(M_badPassword)>>,
                    calls, "mismatch")
        ELSE IF sd.role \notin {R_customer, R_lender, R_admin}
        THEN Result(DeleteSignInData(s), "IDLE", said \o <<Say(M_badRole)>>,
                    calls, "badRole")
        ELSE IF queried /\ env.storeFault
        THEN Result(s, "IDLE", said \o <<Say(M_sysLater)>>, calls2, "fault")
        ELSE IF queried /\ rows = <<>>
        THEN Result(DeleteSignInData(s), "IDLE",
                    said \o <<Say(IF sd.role = R_admin THEN M_noAdmin ELSE M_noAccount)>>,
                    calls2, "noLink")
        ELSE LET s2 == SignedIn(s, sd,
                           IF sd.role = R_customer THEN rows[1].customer_id ELSE Null,
                           IF sd.role = R_lender THEN rows[1].lender_id ELSE Null,
                           IF sd.role = R_admin
                           THEN (IF v = "part_000" THEN rows[1].user_name ELSE "Admin")
                           ELSE rows[1].name)
             IN  IF env.welcomeFails
                 THEN Result(s2, "IDLE", said \o <<Say(M_sysLater)>>, calls2, "unwelcomed")
                 ELSE Result(s2, "IDLE", said \o <<Welcome(v, s2)>>, calls2, "authenticated")

\* Step 2 of the scene: the password.
Step2(v, s, msg, env) ==
    IF IsCancel(msg)
    THEN Result(DeleteSignInData(s), "IDLE", <<Say(M_cancelled)>>, <<>>, "cancelled")
    ELSE IF ~msg.hasText
    THEN Result(s, "AWAIT_PASSWORD",
                <<IF v = "part_000" THEN Ask(M_badInput) ELSE Say(M_badInput)>>,
                <<>>, "reprompt")
    ELSE LET password == Trim(msg.text)
             pre == IF v = "part_000"
                    THEN [replies |-> IF env.deleteFails THEN <<Say(M_privacy)>> ELSE <<>>,
                          calls   |-> <<"deleteMessage">>]
                    ELSE [replies |-> <<>>, calls |-> <<>>]
         IN  IF v = "part_000" /\ env.deleteFails /\ env.warnFails
             THEN Result(s, "AWAIT_PASSWORD", <<Say(M_error)>>, pre.calls, "error")
             ELSE IF s.signInData = <<>>
             THEN Result(IF v = "part_000" THEN DeleteSignInData(s) ELSE s, "IDLE",
                         pre.replies \o <<Say(M_expired)>>, pre.calls, "expired")
             ELSE Step2Verify(v, s, s.signInData[1], password, env, pre)

-----------------------------------------------------------------------------
(* The role-gated router: checkAuth, restrictRole, the commands, the reply  *)
(* handler and the button handler.                                          *)

M_notSignedIn   == <<"You are not signed in. Use /signin to link your account.">>
M_userNotFound  == <<"User account not found. Please contact support.">>
M_notAuthorized == <<"You are not authorized to use this command.">>
M_signedOut     == <<"Signed out successfully. Use /signin to access your account.">>
M_help          == <<"Available commands:">>
M_hello(name)   == <<"Hello ", name, "!">>
M_stopped       == <<"Operation cancelled.">>

M_askLoanCheck == <<"Enter loan ID to ", "check", ":">>
M_askLoanTrack == <<"Enter loan ID to ", "track payments", ":">>
M_askRole      == <<"Please select a ", "role to filter", " (admin, lender, customer):">>
M_askPeriod    == <<"Please select a ", "time period", " (today, this week, this month):">>

M_badLoanId     == <<"Invalid loan ID. Please enter a number.">>
M_badRoleFilter == <<"Invalid role. Please select Admin, Lender, or Customer.">>
M_badPeriod     == <<"Invalid time period. Please select today, this week, or this month.">>
M_noCustomer    == <<"No customer account linked. Please contact support.">>
M_noLender      == <<"No lender account linked. Please contact support.">>
M_noRows        == <<"No rows found.">>
M_rows          == <<"Rows:">>
M_queryError    == <<"Error. Try again later.">>

CB_signInFirst   == <<"Please sign in first">>
CB_notAuthorized == <<"You are not authorized to use this action">>
CB_noCustomer    == <<"No customer account linked">>
CB_noLender      == <<"No lender account linked">>
CB_error         == <<"Error processing request">>
CB_ack           == <<>>

\* The named actions, by the identifier the button carries (the command of
\* an action is "/" followed by the same identifier).
Actions ==
    {"checkloan", "balance", "loans", "active_loans", "loan_history",
     "payment_tracking", "list_users", "view_logs", "help"}

\* A table that lets every role through every gate: with it in place of
\* CommandRoles a customer's reply to the admin's prompt is dispatched
\* (C37 fails).
CommandRolesOpen(a) == {R_customer, R_lender, R_admin}

\* The roles each command handler passes to restrictRole; {} for a handler
\* that calls neither checkAuth nor restrictRole.
CommandRoles(a) ==
    CASE a \in {"checkloan", "balance", "loans"} -> {R_customer}
      [] a \in {"active_loans", "loan_history", "payment_tracking"} -> {R_lender}
      [] a \in {"list_users", "view_logs"} -> {R_admin}
      [] OTHER -> {}

\* Whether the command handler of an action begins with the two gates.
CommandGated(a) == a # "help"

\* A button table without the help entry: with it in place of ActionRoles
\* the Help button of every welcome menu is refused (C38 fails).
ActionRolesNoHelp(a) ==
    CASE a \in {"checkloan", "balance", "loans"} -> {R_customer}
      [] a \in {"active_loans", "loan_history", "payment_tracking"} -> {R_lender}
      [] a \in {"list_users", "view_logs"} -> {R_admin}
      [] OTHER -> {}

\* actionRoles of the button handler; {} for an identifier it does not hold.
ActionRoles(a) ==
    CASE a \in {"checkloan", "balance", "loans"} -> {R_customer}
      [] a \in {"active_loans", "loan_history", "payment_tracking"} -> {R_lender}
      [] a \in {"list_users", "view_logs"} -> {R_admin}
      [] a = "help" -> {R_customer, R_lender, R_admin}
      [] OTHER -> {}

\* A checkAuth that asks the store for the role on every call, whether the
\* session holds one or not: with it in place of CheckAuth a signed-in
\* user's request issues a role lookup (C14 fails).
CheckAuthUncached(s, env) ==
    IF s.userId = Null
    THEN [ok |-> FALSE, threw |-> FALSE, session |-> s,
          replies |-> <<Say(M_notSignedIn)>>, calls |-> <<>>]
    ELSE IF env.storeFault
    THEN [ok |-> FALSE, threw |-> TRUE, session |-> s,
          replies |-> <<Say(M_error)>>, calls |-> <<"users.roleById">>]
    ELSE IF FindRoleById(s.userId) = <<>>
    THEN [ok |-> FALSE, threw |-> FALSE, session |-> s,
          replies |-> <<Say(M_userNotFound)>>, calls |-> <<"users.roleById">>]
    ELSE [ok |-> TRUE, threw |-> FALSE,
          session |-> [s EXCEPT !.role = ToLower(FindRoleById(s.userId)[1])],
          replies |-> <<>>, calls |-> <<"users.roleById">>]

\* A checkAuth that lets a user through whose record is gone: with it in
\* place of CheckAuth the request goes on to the role gate (C25 fails).
CheckAuthAdmitsVanished(s, env) ==
    IF s.userId = Null
    THEN [ok |-> FALSE, threw |-> FALSE, session |-> s,
          replies |-> <<Say(M_notSignedIn)>>, calls |-> <<>>]
    ELSE IF s.role # NoRole
    THEN [ok |-> TRUE, threw |-> FALSE, session |-> s, replies |-> <<>>, calls |-> <<>>]
    ELSE IF env.storeFault
    THEN [ok |-> FALSE, threw |-> TRUE, session |-> s,
          replies |-> <<Say(M_error)>>, calls |-> <<"users.roleById">>]
    ELSE IF FindRoleById(s.userId) = <<>>
    THEN [ok |-> TRUE, threw |-> FALSE, session |-> s,
          replies |-> <<>>, calls |-> <<"users.roleById">>]
    ELSE [ok |-> TRUE, threw |-> FALSE,
          session |-> [s EXCEPT !.role = ToLower(FindRoleById(s.userId)[1])],
          replies |-> <<>>, calls |-> <<"users.roleById">>]

\* checkAuth(ctx): .ok, the session it leaves, what it said and called.
\* .threw: the role query rejected and the error left the handler.
CheckAuth(s, env) ==
    IF s.userId = Null
    THEN [ok |-> FALSE, threw |-> FALSE, session |-> s,
          replies |-> <<Say(M_notSignedIn)>>, calls |-> <<>>]
    ELSE IF s.role # NoRole
    THEN [ok |-> TRUE, threw |-> FALSE, session |-> s, replies |-> <<>>, calls |-> <<>>]
    ELSE IF env.storeFault
    THEN [ok |-> FALSE, threw |-> TRUE, session |-> s,
          replies |-> <<Say(M_error)>>, calls |-> <<"users.roleById">>]
    ELSE IF FindRoleById(s.userId) = <<>>
    THEN [ok |-> FALSE, threw |-> FALSE, session |-> s,
          replies |-> <<Say(M_userNotFound)>>, calls |-> <<"users.roleById">>]
    ELSE [ok |-> TRUE, threw |-> FALSE,
          session |-> [s EXCEPT !.role = ToLower(FindRoleById(s.userId)[1])],
          replies |-> <<>>, calls |-> <<"users.roleById">>]

\* A role gate that admits every role: with it in place of RestrictRole a
\* customer's reply reaches the admin queries (C5 fails).
AdmitAnyRole(s, allowedRoles) == TRUE

\* restrictRole(ctx, allowedRoles), without its reply
RestrictRole(s, allowedRoles) == s.role # NoRole /\ s.role \in allowedRoles

\* The linked id a command looks up again with getCustomerId / getLenderId.
LinkedId(userId, role) ==
    IF role = R_customer
    THEN (IF CustomerRows(userId) = <<>> THEN Null ELSE CustomerRows(userId)[1].customer_id)
    ELSE (IF LenderRows(userId) = <<>> THEN Null ELSE LenderRows(userId)[1].lender_id)

\* The body of a command past the gates.  env.rows: the query finds rows.
CommandBody(s, a, env, calls) ==
    LET role   == CHOOSE r \in CommandRoles(a) : TRUE
        lookup == IF role = R_customer THEN "customers.byUserId" ELSE "lenders.byUserId"
        query  == IF a = "balance" THEN "dqs.balance"
                  ELSE IF a = "loans" THEN "dqs.loans"
                  ELSE IF a = "active_loans" THEN "dqs.activeLoans"
                  ELSE "dqs.loanHistory"
    IN  CASE a = "checkloan" -> Result(s, "IDLE", <<Ask(M_askLoanCheck)>>, calls, "Dispatch")
          [] a = "payment_tracking" ->
                Result(s, "IDLE", <<Ask(M_askLoanTrack)>>, calls, "Dispatch")
          [] a = "list_users" -> Result(s, "IDLE", <<Ask(M_askRole)>>, calls, "Dispatch")
          [] a = "view_logs" -> Result(s, "IDLE", <<Ask(M_askPeriod)>>, calls, "Dispatch")
          [] OTHER ->
                IF env.storeFault
                THEN Result(s, "IDLE", <<Say(M_queryError)>>, calls \o <<lookup>>, "Dispatch")
                ELSE IF LinkedId(s.userId, role) = Null
                THEN Result(s, "IDLE",
                            <<Say(IF role = R_customer THEN M_noCustomer ELSE M_noLender)>>,
                            calls \o <<lookup>>, "Dispatch")
                ELSE Result(s, "IDLE",
                            <<Say(IF env.rows \/ a = "balance" THEN M_rows ELSE M_noRows)>>,
                            calls \o <<lookup, query>>, "Dispatch")

\* The two gates a gated command begins with; auth is checkAuth's result.
CommandGate(auth, a, env) ==
    IF auth.threw
    THEN Result(auth.session, "IDLE", auth.replies, auth.calls, "error")
    ELSE IF ~auth.ok
    THEN Result(auth.session, "IDLE", auth.replies, auth.calls, "Unauthenticated")
    ELSE IF ~RestrictRole(auth.session, CommandRoles(a))
    THEN Result(auth.session, "IDLE", <<Say(M_notAuthorized)>>, auth.calls, "Unauthorized")
    ELSE CommandBody(auth.session, a, env, auth.calls)

\* bot.command(a, ...) of a named action.
Command(s, a, env) ==
    IF ~CommandGated(a)
    THEN Result(s, "IDLE", <<Say(M_help)>>, <<>>, "Dispatch")
    ELSE CommandGate(CheckAuth(s, env), a, env)

\* The body of the button handler past the gates.
CallbackBody(s, data, env) ==
    LET id    == IF data \in {"balance", "loans"} THEN s.customerId ELSE s.lenderId
        query == IF data = "balance" THEN "dqs.balance"
                 ELSE IF data = "loans" THEN "dqs.loans"
                 ELSE IF data = "active_loans" THEN "dqs.activeLoans"
                 ELSE "dqs.loanHistory"
    IN  CASE data = "checkloan" ->
                Result(s, "IDLE", <<Answer(CB_ack), Ask(M_askLoanCheck)>>, <<>>, "Dispatch")
          [] data = "payment_tracking" ->
                Result(s, "IDLE", <<Answer(CB_ack), Ask(M_askLoanTrack)>>, <<>>, "Dispatch")
          [] data = "list_users" ->
                Result(s, "IDLE", <<Answer(CB_ack), Ask(M_askRole)>>, <<>>, "Dispatch")
          [] data = "view_logs" ->
                Result(s, "IDLE", <<Answer(CB_ack), Ask(M_askPeriod)>>, <<>>, "Dispatch")
          [] data = "help" ->
                Result(s, "IDLE", <<Answer(CB_ack), Say(M_help)>>, <<>>, "Dispatch")
          [] OTHER ->
                IF id = Null
                THEN Result(s, "IDLE",
                            <<Answer(IF data \in {"balance", "loans"}
                                     THEN CB_noCustomer ELSE CB_noLender)>>,
                            <<>>, "Dispatch")
                ELSE IF env.storeFault
                THEN Result(s, "IDLE", <<Answer(CB_error)>>, <<query>>, "Dispatch")
                ELSE Result(s, "IDLE",
                            <<Answer(CB_ack),
                              Say(IF env.rows \/ data = "balance" THEN M_rows ELSE M_noRows)>>,
                            <<query>>, "Dispatch")

\* bot.on('callback_query', ...)
Callback(s, data, env) ==
    IF s.userId = Null
    THEN Result(s, "IDLE", <<Answer(CB_signInFirst)>>, <<>>, "Unauthenticated")
    ELSE IF ActionRoles(data) = {} \/ ~RestrictRole(s, ActionRoles(data))
    THEN Result(s, "IDLE",
                (IF ActionRoles(data) = {} THEN <<>> ELSE <<Say(M_notAuthorized)>>)
                    \o <<Answer(CB_notAuthorized)>>,
                <<>>, "Unauthorized")
    ELSE CallbackBody(s, data, env)

-----------------------------------------------------------------------------
(* Replies to a prompt: bot.on('message', ...).  m.replyTo is the text of   *)
(* the message the inbound message replies to (<<>> when it replies to      *)
(* none, or to one without text).                                           *)

Pre_loanCheck == <<"Enter loan ID to ", "check">>
Pre_loanTrack == <<"Enter loan ID to ", "track payments">>
Pre_role      == <<"Please select a ", "role to filter">>
Pre_period    == <<"Please select a ", "time period">>

\* The branch of the reply handler a replied-to text selects.
PromptOf(replyText) ==
    IF StartsWith(replyText, Pre_loanCheck) THEN "checkloan"
    ELSE IF StartsWith(replyText, Pre_loanTrack) THEN "payment_tracking"
    ELSE IF StartsWith(replyText, Pre_role) THEN "list_users"
    ELSE IF StartsWith(replyText, Pre_period) THEN "view_logs"
    ELSE "none"

\* role.charAt(0).toUpperCase() + role.slice(1)
Capitalise(t) == IF t = <<>> THEN <<>> ELSE <<UpperChar(t[1])>> \o Tail(t)

RoleFilters == {<<"A","d","m","i","n">>, <<"L","e","n","d","e","r">>, <<"C","u","s","t","o","m","e","r">>}

\* The role filter a reply names, as the query receives it.
FormattedRole(text) == Capitalise(ToLower(Trim(text)))

Periods == {<<"t","o","d","a","y">>, <<"t","h","i","s"," ","w","e","e","k">>, <<"t","h","i","s"," ","m","o","n","t","h">>}

\* Whether a reply passes the validation of its prompt.
ReplyValid(prompt, text) ==
    CASE prompt \in {"checkloan", "payment_tracking"} -> ~ParseIntIsNaN(text)
      [] prompt = "list_users" -> FormattedRole(text) \in RoleFilters
      [] prompt = "view_logs" -> ToLower(Trim(text)) \in Periods
      [] OTHER -> FALSE

\* The reply sent for a reply that fails validation.
Reprompt(prompt) ==
    CASE prompt \in {"checkloan", "payment_tracking"} -> Done(M_badLoanId)
      [] prompt = "list_users" -> Ask(M_badRoleFilter)
      [] OTHER -> Ask(M_badPeriod)

\* The queries of a validated reply.
ReplyBody(s, prompt, env, calls) ==
    CASE prompt = "checkloan" ->
            IF env.storeFault
            THEN Result(s, "IDLE", <<Done(M_queryError)>>,
                        calls \o <<"customers.byUserId">>, "Dispatch")
            ELSE IF LinkedId(s.userId, R_customer) = Null
            THEN Result(s, "IDLE", <<Done(M_noCustomer)>>,
                        calls \o <<"customers.byUserId">>, "Dispatch")
            ELSE Result(s, "IDLE", <<Done(IF env.rows THEN M_rows ELSE M_noRows)>>,
                        calls \o <<"customers.byUserId", "dqs.loanById">>, "Dispatch")
      [] prompt = "payment_tracking" ->
            IF env.storeFault
            THEN Result(s, "IDLE", <<Done(M_queryError)>>,
                        calls \o <<"lenders.byUserId">>, "Dispatch")
            ELSE IF LinkedId(s.userId, R_lender) = Null
            THEN Result(s, "IDLE", <<Done(M_noLender)>>,
                        calls \o <<"lenders.byUserId">>, "Dispatch")
            ELSE IF ~env.rows
            THEN Result(s, "IDLE", <<Done(M_noRows)>>,
                        calls \o <<"lenders.byUserId", "dqs.loanOwned">>, "Dispatch")
            ELSE Result(s, "IDLE", <<Done(M_rows)>>,
                        calls \o <<"lenders.byUserId", "dqs.loanOwned", "dqs.payments">>,
                        "Dispatch")
      [] prompt = "list_users" ->
            Result(s, "IDLE",
                   <<Done(IF env.storeFault THEN M_queryError
                          ELSE IF env.rows THEN M_rows ELSE M_noRows)>>,
                   calls \o <<"dqs.usersByRole">>, "Dispatch")
      [] OTHER ->
            Result(s, "IDLE",
                   <<Done(IF env.storeFault THEN M_queryError
                          ELSE IF env.rows THEN M_rows ELSE M_noRows)>>,
                   calls \o <<"dqs.activityLogs">>, "Dispatch")

\* The reply handler past the not-a-reply check; auth is checkAuth's result
\* and prompt the branch the replied-to text selects.
ReplyGate(auth, prompt, m, env) ==
    IF auth.threw
    THEN Result(auth.session, "IDLE", auth.replies, auth.calls, "error")
    ELSE IF ~auth.ok
    THEN Result(auth.session, "IDLE", auth.replies, auth.calls, "Unauthenticated")
    ELSE IF prompt = "none"
    THEN Result(auth.session, "IDLE", <<>>, auth.calls, "ignored")
    ELSE IF ~RestrictRole(auth.session, CommandRoles(prompt))
    THEN Result(auth.session, "IDLE", <<Say(M_notAuthorized)>>, auth.calls, "Unauthorized")
    ELSE IF ~m.hasText
    THEN Result(auth.session, "IDLE", <<Say(M_error)>>, auth.calls, "error")
    ELSE IF ~ReplyValid(prompt, m.text)
    THEN Result(auth.session, "IDLE", <<Reprompt(prompt)>>, auth.calls, "invalid")
    ELSE ReplyBody(auth.session, prompt, env, auth.calls)

\* bot.on('message', ...)
OnMessage(s, m, env) ==
    IF m.replyTo = <<>>
    THEN Result(s, "IDLE", <<>>, <<>>, "ignored")
    ELSE ReplyGate(CheckAuth(s, env), PromptOf(m.replyTo), m, env)

-----------------------------------------------------------------------------
(* The ungated commands.                                                    *)

\* bot.command('start', ...)
Start(s) ==
    Result(s, "IDLE",
           <<Say(M_hello(IF s.customerName # Null THEN s.customerName ELSE "User"))>>,
           <<>>, "ok")

\* A sign-out that clears the userId and nothing else: with it in place of
\* SignOut a signed-out session keeps a role without a userId (C15 fails).
SignOutUserIdOnly(s) ==
    Result([s EXCEPT !.userId = Null], "IDLE", <<Say(M_signedOut)>>, <<>>, "signedOut")

\* bot.command('signout', ...): ctx.session = null
SignOut(s) == Result(EmptySession, "IDLE", <<Say(M_signedOut)>>, <<>>, "signedOut")

\* A sign-in command that starts from an empty session: with it in place of
\* SignIn a command of the router signs the user out (C36 fails).
SignInResets(s, msg, env) == Step1(EmptySession, msg, env)

\* bot.command('signin', ...): the stale scratch record is deleted, the scene
\* is entered, and entering runs step 1 on the command's own message.
SignIn(s, msg, env) == Step1(DeleteSignInData(s), msg, env)

\* bot.command('stop', ...)
Stop(s) == Result(DeleteSignInData(s), "IDLE", <<Done(M_stopped)>>, <<>>, "stopped")

-----------------------------------------------------------------------------
(* Updates and the middleware chain: session(), stage.middleware(), then    *)
(* the handlers in the order they are registered.                           *)

\* The commands handlers are registered for.
Commands ==
    {"signin", "start", "help", "signout", "checkloan", "balance", "loans",
     "active_loans", "loan_history", "payment_tracking", "list_users",
     "view_logs", "stop"}

\* The text of a command.
CommandText(c) ==
    CASE c = "signin" -> <<"/","s","i","g","n","i","n">>
      [] c = "start" -> <<"/","s","t","a","r","t">>
      [] c = "help" -> <<"/","h","e","l","p">>
      [] c = "signout" -> <<"/","s","i","g","n","o","u","t">>
      [] c = "checkloan" -> <<"/","c","h","e","c","k","l","o","a","n">>
      [] c = "balance" -> <<"/","b","a","l","a","n","c","e">>
      [] c = "loans" -> <<"/","l","o","a","n","s">>
      [] c = "active_loans" -> <<"/","a","c","t","i","v","e","_","l","o","a","n","s">>
      [] c = "loan_history" -> <<"/","l","o","a","n","_","h","i","s","t","o","r","y">>
      [] c = "payment_tracking" -> <<"/","p","a","y","m","e","n","t","_","t","r","a","c","k","i","n","g">>
      [] c = "list_users" -> <<"/","l","i","s","t","_","u","s","e","r","s">>
      [] c = "view_logs" -> <<"/","v","i","e","w","_","l","o","g","s">>
      [] c = "stop" -> <<"/","s","t","o","p">>

\* The command a text message carries: its text is the command, alone or
\* followed by a space and arguments.
CommandOf(text) ==
    IF text = <<>> \/ Head(text) # "/" THEN "none"
    ELSE LET hit == {c \in Commands :
                        text = CommandText(c)
                            \/ StartsWith(text, CommandText(c) \o <<" ">>)}
         IN  IF hit = {} THEN "none" ELSE CHOOSE c \in hit : TRUE

\* The handlers, in registration order.  A handler that matches an update
\* and does not call next() ends the chain; none of them calls next().
Registered ==
    <<"signin", "start", "help", "signout", "checkloan", "balance", "loans",
      "active_loans", "loan_history", "payment_tracking", "list_users",
      "view_logs", "on_message", "on_callback_query", "stop">>

\* Whether handler h takes an update whose command is c.
Matches(h, u, c) ==
    CASE h = "on_message" -> u.type = "message"
      [] h = "on_callback_query" -> u.type = "callback_query"
      [] OTHER -> c = h

\* The first registered handler that matches.
Route(u) ==
    LET c    == IF u.type = "message" /\ u.hasText THEN CommandOf(u.text) ELSE "none"
        hits == {k \in DOMAIN Registered : Matches(Registered[k], u, c)}
    IN  IF hits = {} THEN "none"
        ELSE Registered[CHOOSE k \in hits : \A j \in hits : k <= j]

\* A chain with the stage registered after the command handlers: a command
\* reaches its handler whatever the scene is doing (C28 fails).
HandlerCommandsFirst(w, u) ==
    IF Route(u) \in Commands THEN Route(u)
    ELSE IF w = "AWAIT_EMAIL" THEN "step1"
    ELSE IF w = "AWAIT_PASSWORD" THEN "step2"
    ELSE Route(u)

\* stage.middleware(): while the scene is active its current step takes
\* every update and the handlers below are not reached.
Handler(w, u) ==
    IF w = "AWAIT_EMAIL" THEN "step1"
    ELSE IF w = "AWAIT_PASSWORD" THEN "step2"
    ELSE Route(u)

\* ctx.message?.text as a step sees it.
MsgOf(u) == [hasText |-> u.type = "message" /\ u.hasText, text |-> u.text]

\* Handler h run on an update of an identity.
Run(h, v, s, w, u, env) ==
    CASE h = "step1" -> Step1(s, MsgOf(u), env)
      [] h = "step2" -> Step2(v, s, MsgOf(u), env)
      [] h = "signin" -> SignIn(s, MsgOf(u), env)
      [] h = "start" -> Start(s)
      [] h = "signout" -> SignOut(s)
      [] h = "stop" -> Stop(s)
      [] h = "on_message" -> OnMessage(s, u, env)
      [] h = "on_callback_query" -> Callback(s, u.data, env)
      [] h = "none" -> Result(s, w, <<>>, <<>>, "unhandled")
      [] OTHER -> Command(s, h, env)

\* One update of an identity, run through the chain.
Handle(v, s, w, u, env) == Run(Handler(w, u), v, s, w, u, env)

-----------------------------------------------------------------------------
(* The inputs explored.                                                     *)

\* What the collaborators do while one update is handled.
Envs ==
    [storeFault : BOOLEAN, deleteFails : BOOLEAN, warnFails : BOOLEAN, rows : BOOLEAN,
     welcomeFails : BOOLEAN]

TextMsg(text) ==
    [type |-> "message", hasText |-> TRUE, text |-> text, replyTo |-> <<>>, data |-> Null]

ReplyMsg(replyTo, text) ==
    [type |-> "message", hasText |-> TRUE, text |-> text, replyTo |-> replyTo, data |-> Null]

PhotoMsg(replyTo) ==
    [type |-> "message", hasText |-> FALSE, text |-> <<>>, replyTo |-> replyTo, data |-> Null]

Button(data) ==
    [type |-> "callback_query", hasText |-> FALSE, text |-> <<>>, replyTo |-> <<>>,
     data |-> data]

\* Texts typed into the wizard: cancel in three spellings, the sign-in
\* command, white space, emails good and bad, passwords right and wrong.
WizardTexts ==
    {T_stop, <<"/","S","T","O","P">>, <<" ","/","s","t","o","p">>, T_signin, <<" ">>,
     E_ann, <<" ">> \o E_ann \o <<" ">>, E_lee, E_adm, E_md5, E_guest, E_orph, E_none,
     <<"a","b">>, <<"a","@","b">>, <<"a",".","b">>,
     <<"/","s","i","g","n","o","u","t">>, <<"/","b","a","l","a","n","c","e">>,
     P_ann, <<" ">> \o P_ann, P_lee, P_adm, <<"z","z">>}

\* The texts sent in reply to the message r: an id for a loan prompt, a role
\* or a period for the two others, each well and ill formed.
RepliesTo(r) ==
    IF r = M_askLoanCheck
    THEN {<<"1","2">>, <<"1","2","a","b","c">>, <<"a","b","c">>, T_stop}
    ELSE IF r = M_askLoanTrack
    THEN {<<"1","2">>, <<"1","2","a","b","c">>, <<"a","b","c">>}
    ELSE IF r = M_badLoanId
    THEN {<<"1","2">>}
    ELSE IF r \in {M_askRole, M_badRoleFilter}
    THEN {<<" ","A","d","m","i","n"," ">>, <<"r","o","o","t">>}
    ELSE IF r = M_askPeriod
    THEN {<<"T","h","i","s"," ","W","e","e","k">>, <<"n","e","v","e","r">>}
    ELSE IF r = M_badPeriod
    THEN {<<"T","h","i","s"," ","W","e","e","k">>}
    ELSE {<<"a","b","c">>}

\* Messages a reply can point at.
ReplyTargets ==
    {M_askLoanCheck, M_askLoanTrack, M_askRole, M_askPeriod,
     M_badLoanId, M_badRoleFilter, M_badPeriod, M_askEmail}

CommandMsgs ==
    {TextMsg(CommandText(c)) : c \in Commands}
        \cup {TextMsg(T_signin \o <<" ">> \o E_none), TextMsg(T_signin \o <<" ">> \o E_ann)}

WizardUpdates ==
    {TextMsg(x) : x \in WizardTexts} \cup {PhotoMsg(<<>>), Button("help")}

ReplyUpdates ==
    UNION {{ReplyMsg(r, x) : x \in RepliesTo(r)} : r \in ReplyTargets}
        \cup {PhotoMsg(M_askRole)}
        \cup {TextMsg(<<"h","e","l","l","o">>), TextMsg(<<"/","u","n","k","n","o","w","n">>), PhotoMsg(<<>>)}

ButtonUpdates == {Button(d) : d \in Actions \cup {"bogus"}}

-----------------------------------------------------------------------------
(* State.                                                                   *)

VARIABLES
    variant,    \* which of the two source files runs
    session,    \* identity -> the session object stored for it
    wizard,     \* identity -> position of SIGN_IN_SCENE (session.__scenes)
    last,       \* history: the update handled last and what its handler did
    runEmail,   \* history: identity -> the email looked up in the current run
    signedOut,  \* history: identity -> signed out, and not signed in since
    cancelled,  \* history: identity -> a cancel was acknowledged, and no
                \*          sign-in command accepted since
    suspended   \* identity -> the password step waiting at an await, if any

vars == <<variant, session, wizard, last, runEmail, signedOut, cancelled, suspended>>

\* The calls that are queries on `pool`.
StoreCalls ==
    {"users.byEmail", "users.roleById", "users.nameById", "customers.byUserId",
     "lenders.byUserId", "dqs.balance", "dqs.loans", "dqs.activeLoans",
     "dqs.loanHistory", "dqs.loanById", "dqs.loanOwned", "dqs.payments",
     "dqs.usersByRole", "dqs.activityLogs"}

\* What `last` keeps of an update: whose it was, the handler that took it,
\* the action it named (a command, a button's data, the prompt replied to),
\* its text and the text of the message it replies to, the handler's Result,
\* and whether a query of the run rejected (the last one it made, under a
\* failing store).
Trace(i, u, h, r, env) ==
    [id |-> i, handler |-> h,
     rejected |-> env.storeFault /\ \E k \in DOMAIN r.calls : r.calls[k] \in StoreCalls,
     arg |-> IF h = "on_callback_query" THEN u.data
             ELSE IF h = "on_message" THEN PromptOf(u.replyTo)
             ELSE h,
     hasText |-> MsgOf(u).hasText,
     text |-> u.text, replyTo |-> u.replyTo,
     outcome |-> r.outcome, replies |-> r.replies, calls |-> r.calls]

Init ==
    /\ variant \in Variants
    /\ session = [i \in Ids |-> EmptySession]
    /\ wizard = [i \in Ids |-> "IDLE"]
    /\ last = [id |-> Null, handler |-> "none", rejected |-> FALSE,
               arg |-> "none", hasText |-> FALSE,
               text |-> <<>>, replyTo |-> <<>>, outcome |-> "init", replies |-> <<>>, calls |-> <<>>]
    /\ runEmail = [i \in Ids |-> <<>>]
    /\ signedOut = [i \in Ids |-> FALSE]
    /\ cancelled = [i \in Ids |-> FALSE]
    /\ suspended = [i \in Ids |-> <<>>]

\* A middleware with one session for everybody: what the handler left is
\* stored for every identity (C16 fails).
CommitToAll(i, u, h, r, env) ==
    /\ session' = [j \in Ids |-> r.session]
    /\ wizard' = [j \in Ids |-> r.wizard]
    /\ last' = Trace(i, u, h, r, env)
    /\ UNCHANGED <<variant, runEmail, signedOut, cancelled, suspended>>

\* What handler h left for identity i, r, is in the session store.
Store(i, u, h, r, env) ==
    /\ session' = [session EXCEPT ![i] = r.session]
    /\ wizard' = [wizard EXCEPT ![i] = r.wizard]
    /\ last' = Trace(i, u, h, r, env)
    /\ runEmail' = [runEmail EXCEPT ![i] =
                        IF \E k \in DOMAIN r.calls : r.calls[k] = "users.byEmail"
                        THEN Trim(u.text)
                        ELSE IF h = "signin" THEN <<>> ELSE @]
    /\ signedOut' = [signedOut EXCEPT ![i] =
                        IF h = "signout" THEN TRUE
                        ELSE IF r.outcome \in {"authenticated", "unwelcomed"} THEN FALSE
                        ELSE @]
    /\ cancelled' = [cancelled EXCEPT ![i] =
                        IF r.outcome \in {"cancelled", "stopped"} THEN TRUE
                        ELSE IF h = "signin" THEN FALSE ELSE @]
    /\ UNCHANGED variant

\* The session middleware stores what handler h left for identity i: r.  The
\* handler ran from its first statement to its last with no other update of
\* the identity in between.
Commit(i, u, h, r, env) ==
    /\ Store(i, u, h, r, env)
    /\ UNCHANGED suspended

\* Identity i's update u is handled, the collaborators behaving as env says.
Deliver(i, u, env) ==
    Commit(i, u, Handler(wizard[i], u),
           Handle(variant, session[i], wizard[i], u, env), env)

\* The environments that differ for a handler: only the store can fail
\* (StoreEnvs), the store, deleteMessage and the privacy warning (StepEnvs),
\* the store and the rows a report finds (QueryEnvs).
StoreEnvs == {e \in Envs : ~e.deleteFails /\ ~e.warnFails /\ ~e.welcomeFails /\ e.rows}

StepEnvs == {e \in Envs : e.rows}

QueryEnvs ==
    {e \in Envs : ~e.deleteFails /\ ~e.warnFails /\ ~e.welcomeFails
                    /\ (e.rows \/ ~e.storeFault)}

\* Step 1 of the scene runs on an update.
EmailStep(i) ==
    /\ wizard[i] = "AWAIT_EMAIL"
    /\ \E u \in WizardUpdates, env \in StoreEnvs : Deliver(i, u, env)

\* Step 2 of the scene runs on an update.
PasswordStep(i) ==
    /\ wizard[i] = "AWAIT_PASSWORD"
    /\ \E u \in WizardUpdates, env \in StepEnvs : Deliver(i, u, env)

\* /signin outside the scene.
SignInCommand(i) ==
    /\ wizard[i] = "IDLE"
    /\ \E u \in CommandMsgs :
            /\ Route(u) = "signin"
            /\ \E env \in StoreEnvs : Deliver(i, u, env)

\* /signout outside the scene.
SignOutCommand(i) ==
    /\ wizard[i] = "IDLE"
    /\ \E u \in CommandMsgs :
            /\ Route(u) = "signout"
            /\ \E env \in StoreEnvs : Deliver(i, u, env)

\* /start outside the scene.
StartCommand(i) ==
    /\ wizard[i] = "IDLE"
    /\ \E u \in CommandMsgs :
            /\ Route(u) = "start"
            /\ \E env \in StoreEnvs : Deliver(i, u, env)

\* The command of a named action outside the scene.
ActionCommand(i) ==
    /\ wizard[i] = "IDLE"
    /\ \E u \in CommandMsgs :
            /\ Route(u) \in Actions
            /\ \E env \in QueryEnvs : Deliver(i, u, env)

\* Any other message outside the scene: bot.on('message').
Message(i) ==
    /\ wizard[i] = "IDLE"
    /\ \E u \in CommandMsgs \cup ReplyUpdates :
            /\ Route(u) = "on_message"
            /\ \E env \in QueryEnvs : Deliver(i, u, env)

\* A button press outside the scene: bot.on('callback_query').
ButtonPress(i) ==
    /\ wizard[i] = "IDLE"
    /\ \E u \in ButtonUpdates :
            /\ Route(u) = "on_callback_query"
            /\ \E env \in QueryEnvs : Deliver(i, u, env)

Next ==
    \E i \in Live :
        \/ EmailStep(i)
        \/ PasswordStep(i)
        \/ SignInCommand(i)
        \/ SignOutCommand(i)
        \/ StartCommand(i)
        \/ ActionCommand(i)
        \/ Message(i)
        \/ ButtonPress(i)

Spec == Init /\ [][Next]_vars

-----------------------------------------------------------------------------
(* Two identities.  Both chats send updates, in any order; the updates are  *)
(* a small mix: the sign-in runs of a customer and of a lender, a wrong     *)
(* password, the cancel directive, sign-out, a command, a button and a      *)
(* prompt reply.                                                            *)

SharedUpdates ==
    {TextMsg(x) : x \in {T_signin, E_ann, E_lee, P_ann, P_lee, T_stop,
                         CommandText("signout"), CommandText("balance")}}
        \cup {Button("active_loans"), ReplyMsg(M_askLoanCheck, <<"1","2">>)}

\* A step of the scene runs on an update of identity i.
WizardStepOf(i) ==
    /\ wizard[i] # "IDLE"
    /\ \E u \in SharedUpdates, env \in StoreEnvs : Deliver(i, u, env)

\* A handler outside the scene runs on an update of identity i.
RouterStepOf(i) ==
    /\ wizard[i] = "IDLE"
    /\ \E u \in SharedUpdates, env \in StoreEnvs : Deliver(i, u, env)

NextTwo ==
    \E i \in Ids :
        \/ WizardStepOf(i)
        \/ RouterStepOf(i)

SpecTwo == Init /\ [][NextTwo]_vars

-----------------------------------------------------------------------------
(* A session that holds a userId and no role, the case checkAuth resolves   *)
(* the role for: the session starts with the userId of a record, or of a    *)
(* record that is gone, and the identity uses the handlers outside the      *)
(* scene.                                                                   *)

RestoredUserIds == {"u1", "u2", "u3", "u5", "u9"}

InitRestored ==
    /\ variant \in Variants
    /\ \E uid \in RestoredUserIds :
            session = [i \in Ids |-> IF i \in Live
                                     THEN [EmptySession EXCEPT !.userId = uid]
                                     ELSE EmptySession]
    /\ wizard = [i \in Ids |-> "IDLE"]
    /\ last = [id |-> Null, handler |-> "none", rejected |-> FALSE,
               arg |-> "none", hasText |-> FALSE,
               text |-> <<>>, replyTo |-> <<>>, outcome |-> "init", replies |-> <<>>, calls |-> <<>>]
    /\ runEmail = [i \in Ids |-> <<>>]
    /\ signedOut = [i \in Ids |-> FALSE]
    /\ cancelled = [i \in Ids |-> FALSE]
    /\ suspended = [i \in Ids |-> <<>>]

NextRestored ==
    \E i \in Live :
        \/ ActionCommand(i)
        \/ Message(i)
        \/ ButtonPress(i)

SpecRestored == InitRestored /\ [][NextRestored]_vars

-----------------------------------------------------------------------------
(* Two updates of one identity in flight.  The transport hands every update *)
(* to bot.handleUpdate as it arrives, so a handler waiting at an await      *)
(* shares the identity's session with the handlers of later updates.  The   *)
(* password step is split at `await bcrypt.compare`: what it read before    *)
(* (the password, and userId, hashedPassword and role of signInData) is     *)
(* held in local constants; what follows writes to ctx.session.  Whether    *)
(* the writes land on the session as the other handlers left it, or on the  *)
(* session as the step first saw it and then replace the stored one, is up  *)
(* to the session middleware: both are outcomes.                            *)

\* A continuation that gives up when the scene is no longer at the password
\* step: with it in place of Continue a cancelled run is not signed in
\* (C27 fails).
ContinueIfActive(v, w, s, c, env) ==
    IF w # "AWAIT_PASSWORD"
    THEN Result(s, w, <<>>, <<>>, "dropped")
    ELSE Step2Verify(v, s, c.sd, Trim(c.u.text), env,
                     [replies |-> <<>>,
                      calls |-> IF v = "part_000" THEN <<"deleteMessage">> ELSE <<>>])

\* The password step from the comparison on, with the constants c it holds,
\* on the session s; w, the position of the scene, is not looked at.
Continue(v, w, s, c, env) ==
    Step2Verify(v, s, c.sd, Trim(c.u.text), env,
                [replies |-> <<>>,
                 calls |-> IF v = "part_000" THEN <<"deleteMessage">> ELSE <<>>])

\* The password step reads the password and signInData and waits.
PasswordSuspend(i) ==
    /\ wizard[i] = "AWAIT_PASSWORD"
    /\ suspended[i] = <<>>
    /\ session[i].signInData # <<>>
    /\ \E x \in {P_ann, P_lee, <<"z","z">>} :
            suspended' = [suspended EXCEPT ![i] =
                            <<[u |-> TextMsg(x), sd |-> session[i].signInData[1],
                               session |-> session[i]]>>]
    /\ UNCHANGED <<variant, session, wizard, last, runEmail, signedOut, cancelled>>

\* The waiting password step goes on to its end.
PasswordResume(i) ==
    /\ suspended[i] # <<>>
    /\ \E env \in {e \in StepEnvs : ~e.deleteFails},
          base \in {session[i], suspended[i][1].session} :
            Store(i, suspended[i][1].u, "step2",
                  Continue(variant, wizard[i], base, suspended[i][1], env), env)
    /\ suspended' = [suspended EXCEPT ![i] = <<>>]

NextRace ==
    \E i \in Live :
        \/ RouterStepOf(i)
        \/ WizardStepOf(i)
        \/ PasswordSuspend(i)
        \/ PasswordResume(i)

SpecRace == Init /\ [][NextRace]_vars

-----------------------------------------------------------------------------
(* Properties.  An action formula below reads the state before a step       *)
(* (session, wizard, runEmail) and, primed, what the step handled and left. *)

Roles == {R_customer, R_lender, R_admin}

\* The role-to-action map: the roles permitted to invoke a named action.
PermittedRoles(a) ==
    CASE a \in {"checkloan", "balance", "loans"} -> {R_customer}
      [] a \in {"active_loans", "loan_history", "payment_tracking"} -> {R_lender}
      [] a \in {"list_users", "view_logs"} -> {R_admin}
      [] a = "help" -> Roles

\* The Domain Query Service: the reporting queries.
DqsCalls ==
    {"dqs.balance", "dqs.loans", "dqs.activeLoans", "dqs.loanHistory", "dqs.loanById",
     "dqs.loanOwned", "dqs.payments", "dqs.usersByRole", "dqs.activityLogs"}

\* The step handles a request of identity i for the named action a, outside
\* the wizard, on the command surface or on the button surface.
Requested(i, a) ==
    /\ wizard[i] = "IDLE"
    /\ last'.id = i
    /\ last'.arg = a
    /\ last'.handler \in {a, "on_callback_query"}

\* The step handles a reply of identity i to the prompt of the action a.
Replied(i, a) ==
    /\ wizard[i] = "IDLE"
    /\ last'.id = i
    /\ last'.arg = a
    /\ last'.handler = "on_message"

\* The outcome the router owes a session s for the action a.
RouterOutcome(s, a) ==
    IF s.userId = Null \/ s.role = NoRole THEN "Unauthenticated"
    ELSE IF s.role \notin PermittedRoles(a) THEN "Unauthorized"
    ELSE "Dispatch"

\* C1: for every identity, whenever the sign-in wizard is not active (IDLE)
\* the session holds no signInData (pendingAuth): every way out of the
\* wizard, a dependency fault included, leaves it empty.
C1_IdleHoldsNoPendingAuth ==
    \A i \in Ids : wizard[i] = "IDLE" => session[i].signInData = <<>>

\* The step writes a userId into the session of identity i.
SetsUserId(i) ==
    /\ session'[i].userId # Null
    /\ \/ session'[i].userId # session[i].userId
       \/ last'.id = i /\ last'.outcome = "authenticated"

\* The step is the password step of identity i's run, the text `password`
\* matches the hash of the record findByEmail returns for the email entered
\* in that run, and the session holds that record's userId, and `role` of it.
SoundSignIn(i, password, role(_)) ==
    /\ last'.id = i
    /\ last'.handler = "step2"
    /\ wizard[i] = "AWAIT_PASSWORD"
    /\ last'.hasText
    /\ FindByEmail(runEmail[i]) # <<>>
    /\ BcryptCompare(password, SafeHash(FindByEmail(runEmail[i])[1].password))
    /\ session'[i].userId = FindByEmail(runEmail[i])[1].user_id
    /\ session'[i].role = role(FindByEmail(runEmail[i])[1].role)

\* The role as the record spells it.
SameRole(r) == r

\* C2, as stated: a userId is written only by the password step of a run in
\* which the submitted text matched the hash of the record found for the
\* email of that run, and the userId and role written are exactly that
\* record's.
C2_SoundExactRole ==
    [][\A i \in Ids : SetsUserId(i) => SoundSignIn(i, last'.text, SameRole)]_vars

\* C2: a userId is written only by the password step of a run in which the
\* submitted text, trimmed, matched the hash of the record found for the
\* email of that run; the userId written is that record's and the role
\* written is that record's role in lower case.  No other operation writes
\* a userId.
C2_SoundCaseFoldedRole ==
    [][\A i \in Ids : SetsUserId(i) => SoundSignIn(i, Trim(last'.text), ToLower)]_vars

\* A run signed a customer in whose record spells the role "Customer".
C2_SignedIn ==
    /\ last.outcome = "authenticated"
    /\ last.handler = "step2"
    /\ last.id \in Ids
    /\ session[last.id].userId = "u1"
    /\ session[last.id].role = R_customer
    /\ runEmail[last.id] = E_ann

\* C3: every request for a named action outside the wizard, by command or
\* by button, gets the router's outcome: Unauthenticated without a userId or
\* a resolved role, Unauthorized with a role outside the action's permitted
\* roles, Dispatch only with a role inside them.
C3_RouterTrichotomy ==
    [][\A i \in Ids, a \in Actions :
            Requested(i, a) => last'.outcome = RouterOutcome(session[i], a)]_vars

\* C4: for every named action and every session, the command surface and
\* the button surface take the same allow/deny decision.
C4_SurfaceParity ==
    \A i \in Live, a \in Actions, env \in QueryEnvs :
        (Command(session[i], a, env).outcome = "Dispatch")
            <=> (Callback(session[i], a, env).outcome = "Dispatch")

\* C5: a request or a prompt reply for an action the router owes
\* Unauthenticated or Unauthorized issues no Domain Query Service call.
C5_DeniedIssuesNoQuery ==
    [][\A i \in Ids, a \in Actions :
            /\ Requested(i, a) \/ Replied(i, a)
            /\ RouterOutcome(session[i], a) # "Dispatch"
            => \A k \in DOMAIN last'.calls : last'.calls[k] \notin DqsCalls]_vars

\* A signed-in customer replied to the prompt of the admin's list_users and
\* was refused.
C5_CustomerRefused ==
    /\ last.handler = "on_message"
    /\ last.arg = "list_users"
    /\ last.outcome = "Unauthorized"
    /\ last.id \in Ids
    /\ session[last.id].role = R_customer

\* The step handles a text of identity i that is the cancel directive,
\* while the wizard is in one of its two steps.
CancelsInWizard(i) ==
    /\ wizard[i] \in {"AWAIT_EMAIL", "AWAIT_PASSWORD"}
    /\ last'.id = i
    /\ last'.hasText
    /\ ToLower(last'.text) = <<"/","s","t","o","p">>

\* C6: in either wizard step the cancel directive is recognised before any
\* other processing: the step makes no call (no credential lookup, no
\* password comparison), clears signInData, returns the wizard to IDLE and
\* acknowledges the cancellation.
C6_CancelComesFirst ==
    [][\A i \in Ids :
            CancelsInWizard(i)
            => /\ last'.calls = <<>>
               /\ session'[i].signInData = <<>>
               /\ wizard'[i] = "IDLE"
               /\ last'.replies = <<Say(M_cancelled)>>]_vars

\* A run was cancelled at the password step, where the scratch record was
\* populated.
C6_CancelledAtPassword ==
    /\ last.handler = "step2"
    /\ last.hasText
    /\ ToLower(last.text) = <<"/","s","t","o","p">>
    /\ last.id \in Ids
    /\ wizard[last.id] = "IDLE"
    /\ session[last.id].signInData = <<>>
    /\ runEmail[last.id] = E_ann

\* C7: a sign-out resets the session to empty, whatever it held, and from
\* then on every gated action of the identity (a named action by command, by
\* button or by prompt reply) yields Unauthenticated, until a wizard run
\* succeeds.
C7_SignOutResets ==
    [][\A i \in Ids :
            /\ (last'.id = i /\ last'.handler = "signout")
               => session'[i] = EmptySession /\ wizard'[i] = "IDLE"
            /\ \A a \in Actions :
                    signedOut[i] /\ (Requested(i, a) \/ Replied(i, a))
                    => last'.outcome = "Unauthenticated"]_vars

\* The identity a session carries.
IdentityOf(s) == <<s.userId, s.role, s.customerId, s.lenderId, s.customerName>>

\* An identity set as a whole: userId, role, display name, and the linked
\* id that goes with the role (a customer's, a lender's; an admin has none).
Whole(s) ==
    /\ s.userId # Null
    /\ s.role \in Roles
    /\ s.customerName # Null
    /\ s.role = R_customer => s.customerId # Null
    /\ s.role = R_lender => s.lenderId # Null

\* An identity not set at all.
Unset(s) == IdentityOf(s) = IdentityOf(EmptySession)

\* The step leaves a userId in identity i's session and writes some part of
\* the identity there.
WritesIdentity(i) ==
    /\ session'[i].userId # Null
    /\ \/ IdentityOf(session'[i]) # IdentityOf(session[i])
       \/ last'.id = i /\ last'.outcome = "authenticated"

\* C8: completing the wizard is atomic: the one step that ends
\* AWAIT_PASSWORD with success sets userId, role, linked id and display
\* name, clears signInData and leaves the wizard; no state between handlers
\* has the identity partly set.
C8_SignInIsAtomic ==
    /\ [](\A i \in Ids : Unset(session[i]) \/ Whole(session[i]))
    /\ [][\A i \in Ids :
            WritesIdentity(i)
            => /\ wizard[i] = "AWAIT_PASSWORD"
               /\ Whole(session'[i])
               /\ session'[i].signInData = <<>>
               /\ wizard'[i] = "IDLE"]_vars

\* A lender's run succeeded: the identity is set as a whole and the scratch
\* record is gone.
C8_LenderReplacedCustomer ==
    /\ last.outcome = "authenticated"
    /\ last.id \in Ids
    /\ session[last.id].userId = "u2"
    /\ session[last.id].role = R_lender
    /\ session[last.id].lenderId = "l22"
    /\ session[last.id].customerId = Null
    /\ session[last.id].signInData = <<>>

\* Non-empty after trimming and containing '@' and '.'.
WellFormedEmail(t) ==
    /\ Trim(t) # <<>>
    /\ \E k \in DOMAIN t : t[k] = "@"
    /\ \E k \in DOMAIN t : t[k] = "."

\* The step handles the text of identity i in AWAIT_EMAIL, a well-formed
\* email that has a credential record.
SubmitsKnownEmail(i) ==
    /\ wizard[i] = "AWAIT_EMAIL"
    /\ last'.id = i
    /\ last'.hasText
    /\ WellFormedEmail(last'.text)
    /\ FindByEmail(Trim(last'.text)) # <<>>

\* The record's hash is in a recognised scheme.
WellFormedRecord(row) == SubSeq(row.password, 1, 2) = <<"$","2">>

\* C9, as stated: every well-formed email with a matching credential record,
\* submitted in AWAIT_EMAIL, moves the wizard to AWAIT_PASSWORD.
C9_KnownEmailAdvances ==
    [][\A i \in Ids : SubmitsKnownEmail(i) => wizard'[i] = "AWAIT_PASSWORD"]_vars

\* C9: every well-formed email with a matching credential record whose hash
\* is in a recognised scheme, submitted in AWAIT_EMAIL, moves the wizard to
\* AWAIT_PASSWORD unless the lookup itself fails.
C9_UsableEmailAdvances ==
    [][\A i \in Ids :
            /\ SubmitsKnownEmail(i)
            /\ WellFormedRecord(FindByEmail(Trim(last'.text))[1])
            /\ ~last'.rejected
            => wizard'[i] = "AWAIT_PASSWORD"]_vars

\* An email typed with spaces around it took its run to the password step.
C9_AdvancedToPassword ==
    /\ last.handler = "step1"
    /\ last.text = <<" ">> \o E_ann \o <<" ">>
    /\ last.id \in Ids
    /\ wizard[last.id] = "AWAIT_PASSWORD"
    /\ session[last.id].signInData # <<>>

\* C10: every other input to AWAIT_EMAIL (no text, empty text, no '@' or
\* '.', unknown email, hash in no recognised scheme, store fault) keeps the
\* wizard in AWAIT_EMAIL or leaves to IDLE without signing in: it never
\* enters AWAIT_PASSWORD and never populates signInData.
C10_OtherInputsStopShort ==
    [][\A i \in Ids :
            /\ wizard[i] = "AWAIT_EMAIL"
            /\ last'.id = i
            /\ ~ /\ SubmitsKnownEmail(i)
                 /\ WellFormedRecord(FindByEmail(Trim(last'.text))[1])
                 /\ ~last'.rejected
            => /\ wizard'[i] \in {"AWAIT_EMAIL", "IDLE"}
               /\ session'[i].signInData = <<>>
               /\ IdentityOf(session'[i]) = IdentityOf(session[i])]_vars

\* The email of a record whose hash is in no recognised scheme ended its
\* run at the email step, with nothing stored.
C10_UnusableHashStopped ==
    /\ last.handler = "step1"
    /\ last.text = E_md5
    /\ last.id \in Ids
    /\ wizard[last.id] = "IDLE"
    /\ session[last.id].signInData = <<>>

\* Identity i answers the password prompt with a text that is not the cancel
\* directive and does not match the hash of the record of the run's email.
EntersWrongPassword(i) ==
    /\ wizard[i] = "AWAIT_PASSWORD"
    /\ last'.id = i
    /\ last'.hasText
    /\ ToLower(last'.text) # <<"/","s","t","o","p">>
    /\ FindByEmail(runEmail[i]) # <<>>
    /\ ~BcryptCompare(Trim(last'.text), SafeHash(FindByEmail(runEmail[i])[1].password))

\* The update handled last was such an answer of identity i.
EnteredWrongPassword(i) ==
    /\ last.id = i
    /\ last.handler = "step2"
    /\ last.hasText
    /\ ToLower(last.text) # <<"/","s","t","o","p">>
    /\ FindByEmail(runEmail[i]) # <<>>
    /\ ~BcryptCompare(Trim(last.text), SafeHash(FindByEmail(runEmail[i])[1].password))

\* C11: a wrong password at the password step is answered with the
\* invalid-password message, clears signInData (pendingAuth) and returns the
\* wizard to IDLE with the session unauthenticated; the identity's next
\* message is not handled by the password step and is compared against no
\* hash.
C11_WrongPasswordEndsRun ==
    [][\A i \in Ids :
            /\ EntersWrongPassword(i)
               => /\ \E k \in DOMAIN last'.replies : last'.replies[k] = Say(M_badPassword)
                  /\ session'[i].signInData = <<>>
                  /\ wizard'[i] = "IDLE"
                  /\ session'[i].userId = Null
            /\ EnteredWrongPassword(i) /\ last'.id = i
               => /\ last'.handler # "step2"
                  /\ \A k \in DOMAIN last'.calls : last'.calls[k] # "bcrypt.compare"]_vars

\* The update recorded in t is the cancel directive, sent by identity i as a
\* message of its own (not as a reply to a prompt).
IsCancelOf(t, i) ==
    /\ t.id = i
    /\ t.hasText
    /\ ToLower(t.text) = <<"/","s","t","o","p">>
    /\ t.replyTo = <<>>

\* C12: the cancel directive issued twice in a row by one identity, from any
\* state, is acknowledged both times with the same cancellation reply, and
\* the second cancel changes neither the session nor the wizard state.
C12_CancelIsIdempotent ==
    [][\A i \in Ids :
            IsCancelOf(last, i) /\ IsCancelOf(last', i)
            => /\ last'.replies = last.replies
               /\ last'.replies # <<>>
               /\ session'[i] = session[i]
               /\ wizard'[i] = wizard[i]]_vars

\* The update recorded in t is the cancel directive of identity i, sent on
\* its own or as the reply to a prompt.
CancelBy(t, i) ==
    /\ t.id = i
    /\ t.hasText
    /\ ToLower(t.text) = <<"/","s","t","o","p">>

\* A cancellation acknowledgment.
CancelAcks == {Say(M_cancelled), Done(M_stopped)}

\* C13: the cancel directive is accepted in every authentication state and
\* every wizard state: it is acknowledged and leaves the wizard at IDLE with
\* no signInData; and the identity's next message is not handled as the
\* answer to a prompt of an action (loan id, role filter, time period).
C13_CancelClearsEverything ==
    [][\A i \in Ids :
            /\ CancelBy(last', i)
               => /\ \E k \in DOMAIN last'.replies : last'.replies[k] \in CancelAcks
                  /\ wizard'[i] = "IDLE"
                  /\ session'[i].signInData = <<>>
            /\ CancelBy(last, i) /\ last'.id = i /\ last'.handler = "on_message"
               => last'.arg = "none"]_vars

\* The user ids the store knows, and one it does not.
UserIds == {"u1", "u2", "u3", "u4", "u5", "u6", "u9"}

\* The request recorded in t was refused by the router.
Denied(t) == t.outcome \in {"Unauthenticated", "Unauthorized"}

\* C14: once a session holds a resolved role, an authorization check for a
\* named action looks no role up in the store and leaves the role as it is,
\* and the decision is a function of that role and the action (allowed
\* exactly for a permitted role); and the role checkAuth resolves for a
\* session that has none is cached: the check that follows makes no call
\* and succeeds again.
C14_RoleIsCached ==
    /\ [](\A uid \in UserIds, env \in Envs :
            LET first == CheckAuth([EmptySession EXCEPT !.userId = uid], env)
            IN  first.ok
                => /\ first.session.role # NoRole
                   /\ CheckAuth(first.session, env).calls = <<>>
                   /\ CheckAuth(first.session, env).ok
                   /\ CheckAuth(first.session, env).session = first.session)
    /\ [][\A i \in Ids, a \in Actions :
            /\ Requested(i, a) \/ Replied(i, a)
            /\ session[i].role # NoRole
            => /\ \A k \in DOMAIN last'.calls : last'.calls[k] # "users.roleById"
               /\ session'[i].role = session[i].role
               /\ Denied(last') <=> session[i].role \notin PermittedRoles(a)]_vars

\* A signed-in customer asked for one of the lender's actions and was refused
\* on the role the session holds, without a lookup.
C14_CustomerRefusedWithoutLookup ==
    /\ last.id \in Ids
    /\ session[last.id].role = R_customer
    /\ last.arg = "active_loans"
    /\ last.outcome = "Unauthorized"
    /\ \A k \in DOMAIN last.calls : last.calls[k] # "users.roleById"

\* C15: in every reachable state, a session that holds a role holds a userId.
C15_RoleImpliesUserId ==
    \A i \in Ids : session[i].role # NoRole => session[i].userId # Null

\* A lender is signed in: the session holds both the role and the userId.
C15_LenderSignedIn ==
    /\ session["chatA"].role = R_lender
    /\ session["chatA"].userId = "u2"
    /\ wizard["chatA"] = "IDLE"

\* C16: a step that handles an update of one identity leaves the session
\* and the wizard state of every other identity as they were, however the
\* updates of the two identities are interleaved.
C16_SessionsAreIsolated ==
    [][\A i \in Ids :
            last'.id # i => session'[i] = session[i] /\ wizard'[i] = wizard[i]]_vars

\* chatB handled an update (its sign-out) while chatA, signed in as the
\* customer, kept its session, and chatB's own wizard run is unaffected by
\* chatA's.
C16_OtherStaysSignedIn ==
    /\ last.id = "chatB"
    /\ last.handler = "signout"
    /\ session["chatB"] = EmptySession
    /\ session["chatA"].userId = "u1"
    /\ session["chatA"].role = R_customer
    /\ wizard["chatA"] = "AWAIT_EMAIL"

\* What the bot sends when the answer to a prompt is not valid.
InvalidNotices == {M_badLoanId, M_badRoleFilter, M_badPeriod}

\* The update recorded in t is identity i's reply to the prompt of an action,
\* and the bot answered that the reply is not valid.
AnsweredInvalid(t, i) ==
    /\ t.id = i
    /\ t.handler = "on_message"
    /\ t.arg \in {"checkloan", "payment_tracking", "list_users", "view_logs"}
    /\ Len(t.replies) = 1
    /\ t.replies[1].text \in InvalidNotices

\* C17: after an invalid reply to the prompt of a multi-turn action the flow
\* stays pending: the identity's reply to the response the bot gave is
\* handled as an answer to the same prompt.
C17_InvalidReplyKeepsPrompt ==
    [][\A i \in Ids :
            /\ AnsweredInvalid(last, i)
            /\ last'.id = i
            /\ last'.handler = "on_message"
            /\ last'.replyTo = last.replies[1].text
            => last'.arg = last.arg]_vars

\* The environment env with the privacy side effect succeeding.
PrivacySucceeds(env) == [env EXCEPT !.deleteFails = FALSE, !.warnFails = FALSE]

\* C18: at the password step, whether deleting the password message or
\* sending the privacy warning fails makes no difference to the transition:
\* for every text submitted (the store answering), the step ends the wizard
\* with signInData cleared, and with the same session and outcome as when
\* the side effect succeeds (authenticated on a match, not on a mismatch).
C18_PrivacyFailureIsHarmless ==
    \A i \in Ids, u \in WizardUpdates, env \in StepEnvs :
        /\ wizard[i] = "AWAIT_PASSWORD"
        /\ MsgOf(u).hasText
        /\ ~env.storeFault
        => LET got  == Step2(variant, session[i], MsgOf(u), env)
               want == Step2(variant, session[i], MsgOf(u), PrivacySucceeds(env))
           IN  /\ got.wizard = "IDLE"
               /\ got.session.signInData = <<>>
               /\ got.session = want.session
               /\ got.outcome = want.outcome

\* C19: when a query of the credential store rejects during a wizard step
\* (step 1 entered by /signin included), the step answers with the generic
\* message 'System error. Try again later.' as its last reply, the wizard leaves to IDLE, the
\* session's identity is what it was before the step, and the fault does not
\* leave the handler (the global error handler does not run).
C19_StoreFaultIsContained ==
    [][\A i \in Ids :
            /\ last'.id = i
            /\ last'.handler \in {"step1", "step2", "signin"}
            /\ last'.rejected
            => /\ last'.replies # <<>>
               /\ last'.replies[Len(last'.replies)] = Say(M_sysLater)
               /\ wizard'[i] = "IDLE"
               /\ IdentityOf(session'[i]) = IdentityOf(session[i])
               /\ last'.outcome # "error"]_vars

\* The store failed on the linked-entity lookup of step 2, after the password
\* had been compared, and the run ended at IDLE with nobody signed in.
C19_FaultAfterMatch ==
    /\ last.handler = "step2"
    /\ last.rejected
    /\ \E k \in DOMAIN last.calls : last.calls[k] = "bcrypt.compare"
    /\ last.id \in Ids
    /\ wizard[last.id] = "IDLE"
    /\ session[last.id].userId = Null

\* Identity i answers the password prompt with a text that matches the hash
\* of the record of the run's email.
EntersRightPassword(i) ==
    /\ wizard[i] = "AWAIT_PASSWORD"
    /\ last'.id = i
    /\ last'.hasText
    /\ ToLower(last'.text) # <<"/","s","t","o","p">>
    /\ FindByEmail(runEmail[i]) # <<>>
    /\ BcryptCompare(Trim(last'.text), SafeHash(FindByEmail(runEmail[i])[1].password))

\* The record has no linked entity for its role (an admin needs one only
\* where the admin's name is looked up), or its role is none of the three.
Unlinked(v, rec) ==
    \/ ToLower(rec.role) \notin Roles
    \/ ToLower(rec.role) = R_customer /\ CustomerRows(rec.user_id) = <<>>
    \/ ToLower(rec.role) = R_lender /\ LenderRows(rec.user_id) = <<>>
    \/ ToLower(rec.role) = R_admin /\ v = "part_000" /\ AdminRows(rec.user_id) = <<>>

\* The reports of an account problem.
AccountProblems == {Say(M_noAccount), Say(M_noAdmin), Say(M_badRole)}

\* C20: after a password match for a record without a linked entity for its
\* role, or with a role that is none of customer, lender, admin, the step
\* (no store query rejecting) reports an account problem, clears signInData,
\* leaves to IDLE and sets no userId and no role.
C20_UnlinkedAccountRefused ==
    [][\A i \in Ids :
            /\ EntersRightPassword(i)
            /\ Unlinked(variant, FindByEmail(runEmail[i])[1])
            /\ ~last'.rejected
            => /\ last'.replies # <<>>
               /\ last'.replies[Len(last'.replies)] \in AccountProblems
               /\ session'[i].signInData = <<>>
               /\ wizard'[i] = "IDLE"
               /\ IdentityOf(session'[i]) = IdentityOf(session[i])]_vars

\* The step handles an update of identity i in AWAIT_EMAIL that carries no
\* text, or a text that is empty after trimming or lacks '@' or '.'.
SubmitsIllFormedEmail(i) ==
    /\ wizard[i] = "AWAIT_EMAIL"
    /\ last'.id = i
    /\ ~last'.hasText \/ ~WellFormedEmail(last'.text)

\* The step re-prompted identity i for the email: the wizard stays in
\* AWAIT_EMAIL, signInData is what it was, and no lookup was issued.
Reprompted(i) ==
    /\ last'.replies \in {<<Ask(M_askEmail)>>, <<Ask(M_badEmail)>>}
    /\ wizard'[i] = "AWAIT_EMAIL"
    /\ session'[i].signInData = session[i].signInData
    /\ \A k \in DOMAIN last'.calls : last'.calls[k] # "users.byEmail"

\* A lookup by email is issued only for a text that is not empty after
\* trimming and contains both '@' and '.'.
LookupOnlyForWellFormed ==
    (\E k \in DOMAIN last'.calls : last'.calls[k] = "users.byEmail")
        => last'.hasText /\ WellFormedEmail(last'.text)

\* C21, as stated: in AWAIT_EMAIL every input that is empty after trimming
\* or lacks '@' or '.' is answered with a re-prompt, the wizard remaining in
\* AWAIT_EMAIL with signInData unchanged and no lookup issued; and a lookup
\* by email is issued only for a well-formed text.
C21_IllFormedEmailReprompts ==
    [][/\ \A i \in Ids : SubmitsIllFormedEmail(i) => Reprompted(i)
       /\ LookupOnlyForWellFormed]_vars

\* C21: in AWAIT_EMAIL every input other than the cancel directive that is
\* empty after trimming or lacks '@' or '.' is answered with a re-prompt,
\* the wizard remaining in AWAIT_EMAIL with signInData unchanged and no
\* lookup issued; and a lookup by email is issued only for a well-formed text.
C21_IllFormedEmailRepromptsUnlessCancel ==
    [][/\ \A i \in Ids :
            /\ SubmitsIllFormedEmail(i)
            /\ ~(last'.hasText /\ ToLower(last'.text) = <<"/","s","t","o","p">>)
            => Reprompted(i)
       /\ LookupOnlyForWellFormed]_vars

\* The text a@b, which has no '.', was answered in AWAIT_EMAIL with the
\* format error and the wizard stayed.
C21_MissingDotReprompted ==
    /\ last.handler = "step1"
    /\ last.text = <<"a","@","b">>
    /\ last.replies = <<Ask(M_badEmail)>>
    /\ last.calls = <<>>
    /\ last.id \in Ids
    /\ wizard[last.id] = "AWAIT_EMAIL"

\* C22: a sign-in command accepted outside the wizard leaves the wizard in
\* AWAIT_EMAIL with signInData empty, whatever the session held before.
C22_SignInEntersClean ==
    [][\A i \in Ids :
            wizard[i] = "IDLE" /\ last'.id = i /\ last'.handler = "signin"
            => /\ wizard'[i] = "AWAIT_EMAIL"
               /\ session'[i].signInData = <<>>]_vars

\* The actions that prompt for an answer.
PromptedActions == {"checkloan", "payment_tracking", "list_users", "view_logs"}

\* A numeric text: digits only, and at least one, white space around it
\* aside.
Numeric(t) ==
    /\ Trim(t) # <<>>
    /\ \A k \in DOMAIN Trim(t) : Trim(t)[k] \in {"0","1","2","3","4","5","6","7","8","9"}

\* The answers the prompt of an action admits, letter case and white space
\* around them aside.
ValidAnswer(a, t) ==
    CASE a \in {"checkloan", "payment_tracking"} -> Numeric(t)
      [] a = "list_users" ->
            ToLower(Trim(t)) \in {<<"a","d","m","i","n">>, <<"l","e","n","d","e","r">>,
                                  <<"c","u","s","t","o","m","e","r">>}
      [] a = "view_logs" ->
            ToLower(Trim(t)) \in {<<"t","o","d","a","y">>,
                                  <<"t","h","i","s"," ","w","e","e","k">>,
                                  <<"t","h","i","s"," ","m","o","n","t","h">>}

\* C23: a reply to the prompt of an action reaches a Domain Query Service
\* call only if it is a valid answer to that prompt (a numeric loan id, one
\* of the three roles, one of the three periods); a reply that is not valid
\* issues no query and changes nothing in the session.
C23_OnlyValidRepliesQuery ==
    [][\A i \in Ids, a \in PromptedActions :
            /\ Replied(i, a)
            /\ ~(last'.hasText /\ ValidAnswer(a, last'.text))
            => /\ \A k \in DOMAIN last'.calls : last'.calls[k] \notin DqsCalls
               /\ session'[i] = session[i]]_vars

\* The actions on the menu of a role.
MenuOf(role) ==
    CASE role = R_lender -> {"active_loans", "loan_history", "payment_tracking", "help"}
      [] role = R_admin -> {"list_users", "view_logs", "help"}
      [] role = R_customer -> {"checkloan", "balance", "loans", "help"}

\* C24: the menu attached to the welcome reply is determined by the role the
\* run authenticated: the lender's menu for a lender, the admin's for an
\* admin, the customer's for a customer, and the three menus are pairwise
\* distinct.
C24_MenuFollowsRole ==
    /\ [](\A r1, r2 \in Roles : r1 # r2 => MenuOf(r1) # MenuOf(r2))
    /\ [][\A i \in Ids :
            last'.id = i /\ last'.outcome = "authenticated"
            => LET menu == last'.replies[Len(last'.replies)].markup.inline_keyboard
               IN  /\ session'[i].role \in Roles
                   /\ {menu[k] : k \in DOMAIN menu} = MenuOf(session'[i].role)
                   /\ Len(menu) = Cardinality(MenuOf(session'[i].role))]_vars

\* A lender was signed in and welcomed with the lender's menu.
C24_LenderWelcomed ==
    /\ last.outcome = "authenticated"
    /\ last.id \in Ids
    /\ session[last.id].role = R_lender
    /\ last.replies[Len(last.replies)].markup.inline_keyboard
            = <<"active_loans", "loan_history", "payment_tracking", "help">>

\* The step handles a request of identity i whose session holds a userId and
\* no role, and the role lookup it issues returns no record.
RoleLookupFindsNothing(i) ==
    /\ last'.id = i
    /\ session[i].userId # Null
    /\ session[i].role = NoRole
    /\ \E k \in DOMAIN last'.calls : last'.calls[k] = "users.roleById"
    /\ ~last'.rejected
    /\ \A e \in DOMAIN UsersByEmail : UsersByEmail[e].user_id # session[i].userId

\* C25: when the session holds a userId and no role and the role lookup by
\* userId returns no record, the request is refused as Unauthenticated
\* ('User account not found...'), no Domain Query Service call is made and
\* the role stays unset.
C25_VanishedAccountRefused ==
    [][\A i \in Ids :
            RoleLookupFindsNothing(i)
            => /\ last'.outcome = "Unauthenticated"
               /\ last'.replies = <<Say(M_userNotFound)>>
               /\ \A k \in DOMAIN last'.calls : last'.calls[k] \notin DqsCalls
               /\ session'[i].role = NoRole
               /\ session'[i] = session[i]]_vars

\* The command of the customer's balance was sent in a session whose userId
\* has no record, and was refused after one lookup.
C25_VanishedRefusedBalance ==
    /\ last.arg = "balance"
    /\ last.handler = "balance"
    /\ last.calls = <<"users.roleById">>
    /\ last.replies = <<Say(M_userNotFound)>>
    /\ session["chatA"].userId = "u9"
    /\ session["chatA"].role = NoRole

\* Hashes to normalise: the three bcrypt tags and a foreign scheme, over a
\* few bodies; and password texts to verify against them.
SomeTags == {<<"$","2","y","$">>, <<"$","2","b","$">>, <<"$","2","a","$">>, <<"m","d","5",":">>}

SomeBodies == {Digest(P_ann), Digest(P_lee), Digest(<<"z","z">>), <<>>}

SomeTexts == {P_ann, P_lee, <<"z","z">>, <<>>}

\* The text t, trimmed, is the password of the hash h, whose tag is one of
\* the bcrypt family's.
Verifies(t, h) ==
    /\ Len(h) >= 4
    /\ SubSeq(h, 1, 4) \in {<<"$","2","y","$">>, <<"$","2","b","$">>, <<"$","2","a","$">>}
    /\ SubSeq(h, 5, Len(h)) = <<"#">> \o Trim(t)

\* C26: verification against a $2y$-tagged hash gives the result of
\* verification against the $2b$-tagged hash of the same body, for every
\* text and body; the normalisation rewrites a leading $2y$ tag to $2b$,
\* leaves every other hash as it is and is idempotent; and the password step
\* accepts a text exactly when it verifies against the stored hash of the
\* run's record, whichever of the tags it carries.
C26_TagsAreEquivalent ==
    /\ [](\A tag \in SomeTags, body \in SomeBodies, t \in SomeTexts :
            /\ BcryptCompare(t, SafeHash(<<"$","2","y","$">> \o body))
                    = BcryptCompare(t, SafeHash(<<"$","2","b","$">> \o body))
            /\ SafeHash(<<"$","2","y","$">> \o body) = <<"$","2","b","$">> \o body
            /\ tag # <<"$","2","y","$">> => SafeHash(tag \o body) = tag \o body
            /\ SafeHash(SafeHash(tag \o body)) = SafeHash(tag \o body))
    /\ [][\A i \in Ids :
            /\ wizard[i] = "AWAIT_PASSWORD"
            /\ last'.id = i
            /\ FindByEmail(runEmail[i]) # <<>>
            => /\ last'.outcome = "mismatch"
                    => ~Verifies(last'.text, FindByEmail(runEmail[i])[1].password)
               /\ last'.outcome \in {"authenticated", "noLink", "badRole"}
                    => Verifies(last'.text, FindByEmail(runEmail[i])[1].password)]_vars

\* Ann, whose stored hash carries the $2y$ tag, signed in with her password;
\* the same password verifies against the $2b$ hash of the same body.
C26_SignedInOn2y ==
    /\ last.outcome = "authenticated"
    /\ last.id \in Ids
    /\ runEmail[last.id] = E_ann
    /\ SubSeq(FindByEmail(E_ann)[1].password, 1, 4) = <<"$","2","y","$">>
    /\ session[last.id].userId = "u1"
    /\ FindByEmail(E_orph)[1].password
            = <<"$","2","b","$">> \o SubSeq(FindByEmail(E_ann)[1].password, 5, 7)

\* A password step of identity i that was waiting goes on in this step,
\* after a cancel of the identity has been acknowledged; the password it
\* holds verifies against the hash it holds, the record it holds is linked
\* to an entity of its role, and neither the store nor a reply fails.
ResumesAfterCancel(i) ==
    /\ suspended[i] # <<>>
    /\ suspended'[i] = <<>>
    /\ cancelled[i]
    /\ Verifies(suspended[i][1].u.text, suspended[i][1].sd.hashedPassword)
    /\ suspended[i][1].sd.userId \in {"u1", "u2", "u3"}
    /\ last'.outcome \notin {"fault", "unwelcomed"}

\* C27: with two updates of one identity in flight, a password step that
\* waits at the comparison and goes on after a cancel of that identity has
\* been acknowledged still writes userId and role of the record it holds:
\* the session is authenticated although the run was cancelled and no
\* sign-in command was accepted since.
C27_ResumedStepSignsIn ==
    [][\A i \in Ids :
            ResumesAfterCancel(i)
            => /\ session'[i].userId = suspended[i][1].sd.userId
               /\ session'[i].role = suspended[i][1].sd.role
               /\ cancelled'[i]
               /\ last'.outcome = "authenticated"]_vars

\* The race happened: the cancel was acknowledged, no sign-in command
\* followed, and the session is the customer's.
C27_AuthenticatedAfterCancel ==
    /\ cancelled["chatA"]
    /\ session["chatA"].userId = "u1"
    /\ session["chatA"].role = R_customer
    /\ last.outcome = "authenticated"
    /\ last.handler = "step2"
    /\ wizard["chatA"] = "IDLE"

\* The text of the sign-out command.
T_signout == <<"/","s","i","g","n","o","u","t">>

\* C28: while the scene of an identity is at one of its steps, every update
\* of the identity (a gated command, /signin, /signout, a button press
\* included) is taken by that step: none of the handlers of the router runs,
\* no query of the Domain Query Service is made, and the session is not
\* signed out.
C28_ActiveSceneTakesEveryUpdate ==
    [][\A i \in Ids :
            wizard[i] # "IDLE" /\ last'.id = i /\ last' # last
            => /\ last'.handler = (IF wizard[i] = "AWAIT_EMAIL" THEN "step1" ELSE "step2")
               /\ last'.arg \notin Actions
               /\ \A k \in DOMAIN last'.calls : last'.calls[k] \notin DqsCalls
               /\ last'.outcome # "signedOut"
               /\ ~signedOut'[i] \/ signedOut[i]]_vars

\* /signout was sent as the password by a signed-in identity: step 2 took
\* it, and the identity is still signed in.
C28_SignOutTakenAsPassword ==
    /\ last.id = "chatA"
    /\ last.handler = "step2"
    /\ last.text = T_signout
    /\ wizard["chatA"] = "IDLE"
    /\ session["chatA"].userId # Null
    /\ ~signedOut["chatA"]

\* C29: with the updates of an identity handled one at a time, once a cancel
\* of the identity has been acknowledged its session does not go from no
\* userId to a userId before a sign-in command of the identity is accepted.
C29_NoSignInAfterCancel ==
    [][\A i \in Ids :
            cancelled[i] /\ session[i].userId = Null
            => session'[i].userId = Null]_vars

\* A run was cancelled and the identity wrote on: the message went to the
\* reply handler and the session has no userId.
C29_WroteOnAfterCancel ==
    /\ cancelled["chatA"]
    /\ session["chatA"].userId = Null
    /\ wizard["chatA"] = "IDLE"
    /\ last.id = "chatA"
    /\ last.handler = "on_message"
    /\ last.text = <<"h","e","l","l","o">>

\* C30: a step of a sign-in run of an identity that is already signed in
\* (the sign-in command, the email step, the password step) which does not
\* end the run with the welcome leaves userId, role, customerId, lenderId
\* and customerName of the session as they were.
C30_FailedRunKeepsIdentity ==
    [][\A i \in Ids :
            /\ last'.id = i
            /\ last' # last
            /\ last'.handler \in {"signin", "step1", "step2"}
            /\ session[i].userId # Null
            /\ last'.outcome # "authenticated"
            => IdentityOf(session'[i]) = IdentityOf(session[i])]_vars

\* C31: with the updates of an identity handled one at a time, whenever its
\* wizard waits for the password the session holds signInData with the
\* userId, the (lower-cased) role and the hash of the record found for the
\* email entered in this run, and the hash is of a recognised scheme; so
\* the password step never takes its 'session expired' branch.
C31_PasswordStepHasRecord ==
    /\ \A i \in Ids :
            wizard[i] = "AWAIT_PASSWORD"
            => /\ session[i].signInData # <<>>
               /\ FindByEmail(runEmail[i]) # <<>>
               /\ session[i].signInData[1].userId = FindByEmail(runEmail[i])[1].user_id
               /\ session[i].signInData[1].role = ToLower(FindByEmail(runEmail[i])[1].role)
               /\ session[i].signInData[1].hashedPassword = FindByEmail(runEmail[i])[1].password
               /\ HashRecognised(session[i].signInData[1].hashedPassword)
    /\ last.outcome # "expired"

\* The password step was sent a photo and asks again: the wizard still
\* waits for the password, with the record of the customer at hand.
C31_StillWaitingWithRecord ==
    /\ wizard["chatA"] = "AWAIT_PASSWORD"
    /\ last.handler = "step2"
    /\ last.outcome = "reprompt"
    /\ session["chatA"].signInData # <<>>
    /\ session["chatA"].signInData[1].userId = "u1"

\* C32: in every session the program reaches from empty sessions, a userId
\* comes with a role; so checkAuth never makes its role query, and the
\* button handler, which has no such query, never meets a signed-in session
\* without a role.
C32_UserIdImpliesRole ==
    /\ \A i \in Ids : session[i].userId # Null => session[i].role # NoRole
    /\ \A k \in DOMAIN last.calls : last.calls[k] # "users.roleById"

\* A signed-in lender pressed a button: the session the button handler saw
\* has its role.
C32_ButtonSeesRole ==
    /\ last.id = "chatA"
    /\ last.handler = "on_callback_query"
    /\ last.arg = "active_loans"
    /\ session["chatA"].userId = "u2"
    /\ session["chatA"].role = R_lender

\* The userIds of the records of table users whose role, lower-cased, is
\* none of customer, lender, admin.
OtherRoleUserIds ==
    {UsersByEmail[e].user_id :
        e \in {x \in DOMAIN UsersByEmail : ToLower(UsersByEmail[x].role) \notin Roles}}

\* C33: in every reachable session a role that is set is one of the
\* lower-case names customer, lender, admin; and no session is signed in
\* as a user whose record has a role that lower-cases to anything else.
C33_RoleIsOneOfThree ==
    \A i \in Ids :
        /\ session[i].role # NoRole => session[i].role \in Roles
        /\ session[i].userId \notin OtherRoleUserIds

\* The guest's email and password were entered: the password step refused
\* the role and nobody is signed in.
C33_GuestRefused ==
    /\ last.handler = "step2"
    /\ last.outcome = "badRole"
    /\ runEmail["chatA"] = E_guest
    /\ session["chatA"].userId = Null
    /\ session["chatA"].role = NoRole

\* The ids and the name the linked-entity lookup of variant v yields for the
\* user uid of role r.
LinkedTo(v, uid, r) ==
    [customerId |-> IF r = R_customer /\ CustomerRows(uid) # <<>>
                    THEN CustomerRows(uid)[1].customer_id ELSE Null,
     lenderId |-> IF r = R_lender /\ LenderRows(uid) # <<>>
                  THEN LenderRows(uid)[1].lender_id ELSE Null,
     name |-> IF r = R_customer /\ CustomerRows(uid) # <<>> THEN CustomerRows(uid)[1].name
              ELSE IF r = R_lender /\ LenderRows(uid) # <<>> THEN LenderRows(uid)[1].name
              ELSE IF r = R_admin /\ v = "bot.js" THEN "Admin"
              ELSE IF r = R_admin /\ AdminRows(uid) # <<>> THEN AdminRows(uid)[1].user_name
              ELSE Null]

\* The ids and the name cached in s are those of its userId.
CacheBelongs(v, s) ==
    /\ s.customerId # Null => s.role = R_customer
    /\ s.lenderId # Null => s.role = R_lender
    /\ s.role = R_admin => s.customerId = Null /\ s.lenderId = Null
    /\ s.customerId = LinkedTo(v, s.userId, s.role).customerId
    /\ s.lenderId = LinkedTo(v, s.userId, s.role).lenderId
    /\ s.customerName = LinkedTo(v, s.userId, s.role).name

\* C34: in every reachable session with a userId the cached customerId,
\* lenderId and customerName are those of that user (customerId only for a
\* customer, lenderId only for a lender, neither for an admin); and a step
\* that signs in a different user leaves no id and no name of the user
\* signed in before.
C34_CacheBelongsToUser ==
    /\ [](\A i \in Ids : session[i].userId # Null => CacheBelongs(variant, session[i]))
    /\ [][\A i \in Ids :
            /\ session[i].userId # Null
            /\ session'[i].userId # Null
            /\ session'[i].userId # session[i].userId
            => /\ session'[i].customerId \in {Null} \cup ({LinkedTo(variant, session'[i].userId, session'[i].role).customerId})
               /\ session[i].customerId # Null => session'[i].customerId # session[i].customerId
               /\ session[i].lenderId # Null => session'[i].lenderId # session[i].lenderId
               /\ session'[i].customerName # session[i].customerName]_vars

\* The admin signed in on a session that answers to the admin's email: no
\* customer id or lender id is cached.
C34_AdminHasNoIds ==
    /\ session["chatA"].userId = "u3"
    /\ session["chatA"].role = R_admin
    /\ session["chatA"].customerId = Null
    /\ session["chatA"].lenderId = Null
    /\ session["chatA"].customerName \in {"Root", "Admin"}
    /\ runEmail["chatA"] = E_adm
    /\ last.outcome = "authenticated"

\* The number of password comparisons among the calls cs.
Comparisons(cs) == Cardinality({k \in DOMAIN cs : cs[k] = "bcrypt.compare"})

\* C35: every text message handled while the wizard of an identity waits
\* for the password (the cancel directive or a password, right or wrong)
\* ends the wizard in that step, after at most one comparison; a run has no
\* second guess against the stored hash.
C35_OneGuessPerRun ==
    [][\A i \in Ids :
            /\ wizard[i] = "AWAIT_PASSWORD"
            /\ last'.id = i
            /\ last' # last
            /\ last'.hasText
            => /\ wizard'[i] = "IDLE"
               /\ Comparisons(last'.calls) <= 1]_vars

\* The identity fields other than the role.
WhoOf(s) == <<s.userId, s.customerId, s.lenderId, s.customerName>>

\* C36: no handler of the router changes who is signed in.  A step that is
\* not the password step and not the sign-out command (a command, a button
\* press, a reply to a prompt, help, start, the sign-in command, the email
\* step, a cancel) leaves userId, customerId, lenderId and customerName as
\* they were and changes the role only from unset to set; the password
\* step changes them only on its success path, past the lookup of the
\* linked entity.
C36_RouterKeepsIdentity ==
    [][\A i \in Ids :
            /\ last'.handler \notin {"step2", "signout"}
               => /\ WhoOf(session'[i]) = WhoOf(session[i])
                  /\ session'[i].role = session[i].role \/ session[i].role = NoRole
            /\ last'.handler = "step2" /\ last'.outcome \notin {"authenticated", "unwelcomed"}
               => IdentityOf(session'[i]) = IdentityOf(session[i])]_vars

\* The signed-in customer sent /start and was greeted by name: the session
\* is still the customer's.
C36_CustomerGreeted ==
    /\ last.id = "chatA"
    /\ last.handler = "start"
    /\ last.replies = <<Say(M_hello("Ann"))>>
    /\ IdentityOf(session["chatA"]) = <<"u1", R_customer, "c11", Null, "Ann">>

\* C37: a reply to a prompt is authorised when it arrives.  The reply
\* handler dispatches it (goes on to validate it and to query) only if the
\* session has a userId and a role at that moment and the role is the one
\* permitted for the action whose prompt is replied to: customer for the
\* check-loan prompt, lender for the payment-tracking prompt, admin for the
\* role-filter and time-period prompts; whoever was signed in when the
\* prompt was sent does not matter.  A reply that is refused issues no
\* query of the Domain Query Service.
C37_ReplyIsReauthorised ==
    [][\A i \in Ids :
            /\ wizard[i] = "IDLE"
            /\ last'.id = i
            /\ last'.handler = "on_message"
            /\ last'.arg \in {"checkloan", "payment_tracking", "list_users", "view_logs"}
            => /\ last'.outcome \in {"Dispatch", "invalid"}
                    => /\ session[i].userId # Null
                       /\ session[i].role \in PermittedRoles(last'.arg)
               /\ session[i].userId = Null \/ session[i].role \notin PermittedRoles(last'.arg)
                    => /\ last'.outcome \in {"Unauthenticated", "Unauthorized"}
                       /\ \A k \in DOMAIN last'.calls : last'.calls[k] \notin DqsCalls]_vars

\* The signed-in customer answered the lender's payment-tracking prompt with
\* a loan id: the reply was refused and nothing was queried.
C37_CustomerAnswersLenderPrompt ==
    /\ last.id = "chatA"
    /\ last.handler = "on_message"
    /\ last.arg = "payment_tracking"
    /\ last.text = <<"1","2">>
    /\ last.outcome = "Unauthorized"
    /\ last.calls = <<>>
    /\ session["chatA"].role = R_customer

\* The action identifiers on the buttons of the welcome menu of role r.
MenuButtons(v, r) == {InlineKeyboard(v, r)[k] : k \in DOMAIN InlineKeyboard(v, r)}

\* C38: every button of the welcome menu of a role r carries an identifier
\* that the button handler's table holds, with r among its roles; so a
\* signed-in session that presses a button of the menu of its role is never
\* answered Unauthorized.
C38_MenuButtonsArePermitted ==
    /\ [](\A v \in Variants, r \in Roles :
            \A a \in MenuButtons(v, r) :
                /\ ActionRoles(a) # {}
                /\ r \in ActionRoles(a))
    /\ [][\A i \in Ids :
            /\ wizard[i] = "IDLE"
            /\ last'.id = i
            /\ last'.handler = "on_callback_query"
            /\ session[i].userId # Null
            /\ session[i].role \in Roles
            /\ last'.arg \in MenuButtons(variant, session[i].role)
            => last'.outcome = "Dispatch"]_vars

\* The admin pressed View Logs, a button of the admin's welcome menu, and
\* was asked for the period.
C38_AdminPressedViewLogs ==
    /\ last.id = "chatA"
    /\ last.handler = "on_callback_query"
    /\ last.arg = "view_logs"
    /\ last.outcome = "Dispatch"
    /\ session["chatA"].role = R_admin
    /\ "view_logs" \in MenuButtons(variant, R_admin)

=============================================================================
